---- MODULE Spec2Model ----
(***************************************************************************)
(* Model of the securechat real-time server (server/routes: the WebSocket  *)
(* protocol engine and its connection registry) over the storage layer     *)
(* (server/storage.ts) and the relational schema (shared/schema.ts).       *)
(*                                                                         *)
(* Every `await` of the asynchronous message handler is a suspension       *)
(* point: a handler invocation is a task whose continuation runs when the  *)
(* store call it awaits returns, and store calls of different tasks may    *)
(* return in any order.                                                    *)
(***************************************************************************)
EXTENDS Integers, Sequences, FiniteSets, TLC

VARIABLES
    readyState,            \* ws.readyState of every server-side connection
    userId,                \* ws.userId of every server-side connection
    authenticatedClients,  \* Map<string, Set<AuthenticatedWebSocket>>
    setsCreated,           \* number of `new Set()` evaluated so far, per key (object identity)
    outbox,                \* frames handed to socket.send, per connection, in order
    messages,              \* rows of table messages, in insertion order
    messageStatus,         \* rows of table message_status, in insertion order
    typingStatus,          \* rows of table typing_status, in insertion order
    tasks,                 \* handler invocations suspended at an await
    received,              \* number of frames received so far
    ignored,               \* history: <<connection, ws.userId>> of the frames no case handled
    created,               \* client: number of WebSocket objects created by connect()
    sockets,               \* client: the WebSocket objects whose transport has not closed
    ws,                    \* client: this.ws, the number of a WebSocket object, 0 for null
    reconnectAttempts,     \* client: this.reconnectAttempts
    isAuthenticated,       \* client: this.isAuthenticated
    clientUserId,          \* client: this.userId
    timers,                \* client: the pending setTimeout callbacks of onclose
    promises,              \* client: the promises connect() returned to the caller
    calls,                 \* client: number of calls the caller made
    budget,                \* client: sockets and caller calls one behaviour may use
    reconnectsSinceAuth,   \* history: connect() calls of timers since the last authenticated frame
    everOpened,            \* history: some transport has opened
    now,                   \* presence: NOW() of the database, in seconds
    liveTypers,            \* presence: what getTypingUsers returned last, per conversation
    localStorage,          \* e2e: window.localStorage of the browser that signs up and logs in
    keyPairs,              \* e2e: number of RSA key pairs generateKeyPair has returned
    aesKeys,               \* e2e: per AES key generateAESKey returned, the payloads encrypted under it
    sealed,                \* e2e: what the last sendMessage was given and what it built
    sent,                  \* e2e: the last request or frame the browser handed to the network
    decryptedContent,      \* e2e: what the last MessageBubble decryption was given and showed
    clock,                 \* chat: Date.now() of the browser, in seconds
    chatConversationId,    \* chat: the conversationId given to useChat and to the chat area
    chatMessages,          \* chat: the state `messages` of useChat
    typingUsers,           \* chat: the state `typingUsers` of useChat
    messageHandlers,       \* chat: websocketService.messageHandlers
    invoked,               \* chat: the handlers the last incoming frame invoked, in order
    lastCall,              \* history: the last onMessage or offMessage call, per frame type
    isConnected,           \* chat: the state `isConnected` of useChat
    messageText,           \* input: the state `messageText` of the chat area
    inputIsTyping,         \* input: the state `isTyping` of the chat area
    typingTimeoutRef,      \* input: the pending callback of typingTimeoutRef.current
    typingSent,            \* input: the isTyping of the last typing frame handed to the service
    lastInputAt,           \* history: the time of the last keystroke or send
    userRows,              \* keys: column public_key of table users, per username
    currentUsername,       \* keys: item currentUsername of localStorage
    requests,              \* rest: invocations of the POST messages handler suspended at an await
    responses,             \* rest: what was written to res, per request, in order
    unhandled              \* rest: the requests whose handler promise rejected

vars == <<readyState, userId, authenticatedClients, setsCreated, outbox,
          messages, messageStatus, typingStatus, tasks, received, ignored>>

cvars == <<created, sockets, ws, reconnectAttempts, isAuthenticated, clientUserId,
           timers, promises, calls, budget, reconnectsSinceAuth, everOpened>>

pvars == <<now, liveTypers>>

evars == <<localStorage, keyPairs, aesKeys, sealed, sent, decryptedContent>>

uvars == <<clock, chatConversationId, chatMessages, typingUsers, messageHandlers,
           invoked, lastCall, isConnected, messageText, inputIsTyping,
           typingTimeoutRef,
           typingSent, lastInputAt>>

kvars == <<userRows, currentUsername>>

rvars == <<requests, responses, unhandled>>

----------------------------------------------------------------------------
(* Bounds *)

MaxFrames == 3         \* frames received by the server in one behaviour
MaxInFlight == 2       \* handler invocations suspended at the same time

(* Universe *)

Conns == {"c1", "c2"}                \* connections accepted by the WebSocketServer
NoUser == "undefined"                \* value of ws.userId before it is assigned
Users == {"u1", "u2", "u3"}          \* ids of the rows of table users
Conversations == {"v1"}              \* ids of the rows of table conversations
ConvIds == Conversations \cup {"v0"} \* conversation ids a frame can name
StatusValues == {"read"}             \* status values a message_status frame carries

\* <<conversationId, payload passes insertMessageSchema>> of a send_message frame
SendMessageInputs == {<<"v1", TRUE>>, <<"v0", TRUE>>, <<"v1", FALSE>>}
\* <<conversationId, isTyping>> of a typing frame
TypingInputs == {<<"v1", TRUE>>, <<"v1", FALSE>>, <<"v0", TRUE>>}

\* rows of conversation_participants, in insertion order
conversationParticipants == [v \in Conversations |-> <<"u1", "u2">>]

\* <<messageId, conversationId, status>> of a message_status frame: the id of
\* a stored message or of none, with the conversation of the message or another
MessageStatusInputs(msgs) ==
    {<<m, "v1", st>> : m \in 1..(Len(msgs) + 1), st \in StatusValues}
        \cup {<<1, "v0", st>> : st \in StatusValues}

----------------------------------------------------------------------------
(* JavaScript Set (insertion ordered, no duplicates) and Map *)

Range(s) == {s[i] : i \in 1..Len(s)}

SetAddPush(s, x) == Append(s, x)

SetAdd(s, x) == IF x \in Range(s) THEN s ELSE Append(s, x)

SetDelete(s, x) == SelectSeq(s, LAMBDA y : y # x)

MapSet(m, k, v) == [x \in (DOMAIN m) \cup {k} |-> IF x = k THEN v ELSE m[x]]

MapDelete(m, k) == [x \in (DOMAIN m) \ {k} |-> m[x]]

\* the sockets of the Set object `oid`: a Set that is no longer in the map
\* was emptied before it was removed, and nothing adds to it afterwards
SetItems(reg, oid) ==
    IF \E k \in DOMAIN reg : reg[k].oid = oid
    THEN reg[CHOOSE k \in DOMAIN reg : reg[k].oid = oid].items
    ELSE <<>>

----------------------------------------------------------------------------
(* Frames *)

AuthenticateFrame(u) == [type |-> "authenticate", userId |-> u]
SendMessageFrame(v, ok) == [type |-> "send_message", conversationId |-> v, valid |-> ok]
TypingFrame(v, b) == [type |-> "typing", conversationId |-> v, isTyping |-> b]
MessageStatusFrame(m, v, s) ==
    [type |-> "message_status", messageId |-> m, conversationId |-> v, status |-> s]
UnknownFrame == [type |-> "unknown"]
MalformedFrame == [type |-> "malformed"]

Authenticated(u) == [type |-> "authenticated", userId |-> u]
Error(m) == [type |-> "error", message |-> m]
NewMessage(msg, sender) == [type |-> "new_message", message |-> msg, sender |-> sender]
TypingStatusFrame(v, u, name, b) ==
    [type |-> "typing_status", conversationId |-> v, userId |-> u,
     username |-> name, isTyping |-> b]
MessageStatusUpdate(m, u, s) ==
    [type |-> "message_status_update", messageId |-> m, userId |-> u, status |-> s]

\* socket.send(frame): nothing is transmitted unless the socket is OPEN
Send(ob, rs, c, f) == IF rs[c] = "OPEN" THEN [ob EXCEPT ![c] = Append(@, f)] ELSE ob

\* userSockets.forEach(socket => { if (socket.readyState === OPEN) socket.send(frame) })
RECURSIVE ForEachSend(_, _, _, _)
ForEachSend(ob, rs, socks, f) ==
    IF socks = <<>> THEN ob
    ELSE ForEachSend(Send(ob, rs, Head(socks), f), rs, Tail(socks), f)

----------------------------------------------------------------------------
(* Storage *)

\* storage.getUser(id): the row of users with that id, if any
getUser(id) == IF id \in Users THEN id ELSE NoUser

\* storage.getConversation(id)
getConversation(v) == v \in Conversations

\* storage.getUserConversations(userId): the conversations userId participates in
getUserConversations(u) ==
    {v \in Conversations : u \in Range(conversationParticipants[v])}

\* storage.getConversationMessages(conversationId, 1): the newest message of it
getConversationMessages(msgs, v) ==
    LET idx == {i \in 1..Len(msgs) : msgs[i].conversationId = v}
    IN IF idx = {} THEN <<>>
       ELSE <<msgs[CHOOSE i \in idx : \A j \in idx : j <= i]>>

\* INTERVAL '5 seconds' of getTypingUsers, in seconds
typingInterval == 5

\* storage.updateTypingStatus(conversationId, userId, isTyping): an insert with
\* onConflictDoNothing(); the only unique column of typing_status is its
\* generated id, so no insert conflicts, and last_update defaults to NOW()
updateTypingStatus(rows, v, u, isTyping, t) ==
    Append(rows, [conversationId |-> v, userId |-> u, isTyping |-> isTyping,
                  lastUpdate |-> t])

\* storage.getTypingUsers(conversationId), evaluated when NOW() is t
getTypingUsersNoExpiry(rows, v, t) ==
    {rows[i].userId : i \in {j \in 1..Len(rows) :
        rows[j].conversationId = v /\ rows[j].isTyping}}
getTypingUsers(rows, v, t) ==
    {rows[i].userId : i \in {j \in 1..Len(rows) :
        /\ rows[j].conversationId = v
        /\ rows[j].isTyping
        /\ rows[j].lastUpdate > t - typingInterval}}

\* the payload of the frame that connection c sent as the n-th frame
Content(c, n) == [conn |-> c, n |-> n]
NoContent == Content("", 0)

\* the rows table messages holds when the server starts
InitialMessages ==
    << [id |-> 1, conversationId |-> "v1", senderId |-> "u1",
        encryptedContent |-> Content("c0", 1)],
       [id |-> 2, conversationId |-> "v1", senderId |-> "u2",
        encryptedContent |-> Content("c0", 2)] >>

----------------------------------------------------------------------------
(* Connection registry *)

\* authenticate: create the Set of the id if the map has none, then add ws
RegisterNoCreate(reg, n, u, c) ==
    IF u \notin DOMAIN reg THEN reg
    ELSE [reg EXCEPT ![u].items = SetAdd(@, c)]

Register(reg, n, u, c) ==
    IF u \notin DOMAIN reg
    THEN MapSet(reg, u, [oid |-> <<u, n[u] + 1>>, items |-> SetAdd(<<>>, c)])
    ELSE [reg EXCEPT ![u].items = SetAdd(@, c)]

\* close: delete ws from the Set of ws.userId, delete the Set when it is empty
UnregisterKeepEmpty(reg, u, c) ==
    IF u = NoUser \/ u \notin DOMAIN reg THEN reg
    ELSE [reg EXCEPT ![u].items = SetDelete(@, c)]

Unregister(reg, u, c) ==
    IF u = NoUser \/ u \notin DOMAIN reg THEN reg
    ELSE LET s == SetDelete(reg[u].items, c)
         IN IF Len(s) = 0 THEN MapDelete(reg, u)
            ELSE [reg EXCEPT ![u].items = s]

----------------------------------------------------------------------------
(* Handler invocations *)

\* the connections the map holds for the principals us
RegisteredFor(reg, us) ==
    UNION {Range(reg[u].items) : u \in us \cap DOMAIN reg}

Members(v) == IF v \in Conversations THEN Range(conversationParticipants[v]) ELSE {}

\* `registered` is a history field: the connections that were registered for
\* the recipients of the frame when the frame arrived
Task(fid, c, f) ==
    [fid |-> fid, conn |-> c, type |-> f.type, pc |-> "start",
     conversationId |-> "", isTyping |-> FALSE, status |-> "", messageId |-> 0,
     content |-> NoContent, senderId |-> NoUser, savedMessage |-> 0, uid |-> NoUser,
     idx |-> 0, held |-> <<NoUser, 0>>, registered |-> {}]

CanReceiveClosed(c) == received < MaxFrames

CanReceive(c) == readyState[c] = "OPEN" /\ received < MaxFrames

CanSuspend == Cardinality(tasks) < MaxInFlight

\* position of the next frame among all frames received
NextFrame == received + 1

\* first participant from position i on for which the map holds a Set
\* (skipping `self` in the typing loop); 0 when the loop ends
NextParticipant(reg, ps, i, skip) ==
    LET js == {j \in i..Len(ps) : ps[j] \in DOMAIN reg /\ ps[j] \notin skip}
    IN IF js = {} THEN 0 ELSE CHOOSE j \in js : \A k \in js : j <= k

\* the for-loop over targetConversation.participants from position i on:
\* it suspends at `await storage.getUser(ws.userId)` or ends the handler
Loop(t, i, skip) ==
    LET ps == conversationParticipants[t.conversationId]
        j == NextParticipant(authenticatedClients, ps, i, skip)
    IN IF j = 0 THEN tasks \ {t}
       ELSE (tasks \ {t}) \cup
            {[t EXCEPT !.pc = "getUser", !.idx = j,
                       !.held = authenticatedClients[ps[j]].oid,
                       !.uid = userId[t.conn]]}

----------------------------------------------------------------------------
(* ws.on('message'): case 'authenticate' *)

OnAuthenticate(c, u) ==
    /\ CanReceive(c)
    /\ received' = NextFrame
    /\ userId' = [userId EXCEPT ![c] = u]
    /\ authenticatedClients' = Register(authenticatedClients, setsCreated, u, c)
    /\ setsCreated' = IF u \in DOMAIN authenticatedClients
                      THEN setsCreated ELSE [setsCreated EXCEPT ![u] = @ + 1]
    /\ outbox' = Send(outbox, readyState, c, Authenticated(u))
    /\ UNCHANGED <<cvars, evars, pvars, uvars, kvars, rvars, ignored, readyState, messages, messageStatus, typingStatus, tasks>>

(* ws.on('message'): case 'send_message' *)

OnSendMessage(c, v, ok) ==
    /\ CanReceive(c)
    /\ LET f == SendMessageFrame(v, ok)
           fid == NextFrame
       IN /\ received' = NextFrame
          /\ IF userId[c] = NoUser
             THEN /\ outbox' = Send(outbox, readyState, c, Error("Not authenticated"))
                  /\ tasks' = tasks
             ELSE IF ~ok
             THEN \* insertMessageSchema.parse throws
                  /\ outbox' = Send(outbox, readyState, c, Error("Failed to send message"))
                  /\ tasks' = tasks
             ELSE /\ CanSuspend
                  /\ outbox' = outbox
                  /\ tasks' = tasks \cup
                       {[Task(fid, c, f) EXCEPT
                            !.pc = "createMessage",
                            !.conversationId = v,
                            !.content = Content(c, fid),
                            !.senderId = userId[c],
                            !.registered = RegisteredFor(authenticatedClients, Members(v))]}
    /\ UNCHANGED <<cvars, evars, pvars, uvars, kvars, rvars, ignored, readyState, userId, authenticatedClients, setsCreated,
                   messages, messageStatus, typingStatus>>

\* await storage.createMessage(validatedMessage) returns or throws
SendCreateMessage(t) ==
    /\ t \in tasks /\ t.type = "send_message" /\ t.pc = "createMessage"
    /\ IF t.conversationId \in Conversations /\ t.senderId \in Users
       THEN /\ messages' = Append(messages,
                   [id |-> Len(messages) + 1, conversationId |-> t.conversationId,
                    senderId |-> t.senderId, encryptedContent |-> t.content])
            /\ tasks' = (tasks \ {t}) \cup
                   {[t EXCEPT !.pc = "getConversation",
                              !.savedMessage = Len(messages) + 1]}
            /\ outbox' = outbox
       ELSE \* foreign key violation: the insert throws
            /\ messages' = messages
            /\ tasks' = tasks \ {t}
            /\ outbox' = Send(outbox, readyState, t.conn, Error("Failed to send message"))
    /\ UNCHANGED <<cvars, evars, pvars, uvars, kvars, rvars, ignored, readyState, userId, authenticatedClients, setsCreated,
                   messageStatus, typingStatus, received>>

\* await storage.getConversation(message.conversationId) returns
SendGetConversation(t) ==
    /\ t \in tasks /\ t.type = "send_message" /\ t.pc = "getConversation"
    /\ IF ~getConversation(t.conversationId)
       THEN /\ outbox' = Send(outbox, readyState, t.conn, Error("Conversation not found"))
            /\ tasks' = tasks \ {t}
       ELSE /\ outbox' = outbox
            /\ tasks' = (tasks \ {t}) \cup
                   {[t EXCEPT !.pc = "getUserConversations", !.uid = userId[t.conn]]}
    /\ UNCHANGED <<cvars, evars, pvars, uvars, kvars, rvars, ignored, readyState, userId, authenticatedClients, setsCreated,
                   messages, messageStatus, typingStatus, received>>

\* await storage.getUserConversations(ws.userId) returns
SendGetUserConversations(t) ==
    /\ t \in tasks /\ t.type = "send_message" /\ t.pc = "getUserConversations"
    /\ IF t.conversationId \in getUserConversations(t.uid)
       THEN tasks' = Loop(t, 1, {})
       ELSE tasks' = tasks \ {t}
    /\ UNCHANGED <<cvars, evars, pvars, uvars, kvars, rvars, ignored, readyState, userId, authenticatedClients, setsCreated, outbox,
                   messages, messageStatus, typingStatus, received>>

\* await storage.getUser(ws.userId) returns: userSockets.forEach(...)
SendGetUser(t) ==
    /\ t \in tasks /\ t.type = "send_message" /\ t.pc = "getUser"
    /\ outbox' = ForEachSend(outbox, readyState,
                             SetItems(authenticatedClients, t.held),
                             NewMessage(messages[t.savedMessage], getUser(t.uid)))
    /\ tasks' = Loop(t, t.idx + 1, {})
    /\ UNCHANGED <<cvars, evars, pvars, uvars, kvars, rvars, ignored, readyState, userId, authenticatedClients, setsCreated,
                   messages, messageStatus, typingStatus, received>>

(* ws.on('message'): case 'typing' *)

OnTyping(c, v, b) ==
    /\ CanReceive(c)
    /\ LET f == TypingFrame(v, b)
           fid == NextFrame
       IN /\ received' = NextFrame
          /\ IF userId[c] = NoUser
             THEN tasks' = tasks
             ELSE /\ CanSuspend
                  /\ tasks' = tasks \cup
                       {[Task(fid, c, f) EXCEPT
                            !.pc = "updateTypingStatus",
                            !.conversationId = v,
                            !.isTyping = b,
                            !.senderId = userId[c],
                            !.uid = userId[c],
                            !.registered = RegisteredFor(authenticatedClients,
                                                         Members(v) \ {userId[c]})]}
    /\ UNCHANGED <<cvars, evars, pvars, uvars, kvars, rvars, ignored, readyState, userId, authenticatedClients, setsCreated, outbox,
                   messages, messageStatus, typingStatus>>

\* await storage.updateTypingStatus(conversationId, ws.userId, isTyping) returns or throws
TypingUpdateTypingStatus(t) ==
    /\ t \in tasks /\ t.type = "typing" /\ t.pc = "updateTypingStatus"
    /\ IF t.conversationId \in Conversations /\ t.uid \in Users
       THEN /\ typingStatus' = updateTypingStatus(typingStatus, t.conversationId,
                                                   t.uid, t.isTyping, now)
            /\ tasks' = (tasks \ {t}) \cup {[t EXCEPT !.pc = "getConversation"]}
       ELSE \* foreign key violation: the insert throws, the handler logs it
            /\ typingStatus' = typingStatus
            /\ tasks' = tasks \ {t}
    /\ UNCHANGED <<cvars, evars, pvars, uvars, kvars, rvars, ignored, readyState, userId, authenticatedClients, setsCreated, outbox,
                   messages, messageStatus, received>>

\* await storage.getConversation(message.conversationId) returns
TypingGetConversation(t) ==
    /\ t \in tasks /\ t.type = "typing" /\ t.pc = "getConversation"
    /\ IF getConversation(t.conversationId)
       THEN tasks' = (tasks \ {t}) \cup
                {[t EXCEPT !.pc = "getUserConversations", !.uid = userId[t.conn]]}
       ELSE tasks' = tasks \ {t}
    /\ UNCHANGED <<cvars, evars, pvars, uvars, kvars, rvars, ignored, readyState, userId, authenticatedClients, setsCreated, outbox,
                   messages, messageStatus, typingStatus, received>>

\* await storage.getUserConversations(ws.userId) returns
TypingGetUserConversations(t) ==
    /\ t \in tasks /\ t.type = "typing" /\ t.pc = "getUserConversations"
    /\ IF t.conversationId \in getUserConversations(t.uid)
       THEN tasks' = Loop(t, 1, {userId[t.conn]})
       ELSE tasks' = tasks \ {t}
    /\ UNCHANGED <<cvars, evars, pvars, uvars, kvars, rvars, ignored, readyState, userId, authenticatedClients, setsCreated, outbox,
                   messages, messageStatus, typingStatus, received>>

\* await storage.getUser(ws.userId) returns: userSockets.forEach(...)
TypingGetUser(t) ==
    /\ t \in tasks /\ t.type = "typing" /\ t.pc = "getUser"
    /\ outbox' = ForEachSend(outbox, readyState,
                             SetItems(authenticatedClients, t.held),
                             TypingStatusFrame(t.conversationId, userId[t.conn],
                                               getUser(t.uid), t.isTyping))
    /\ tasks' = Loop(t, t.idx + 1, {userId[t.conn]})
    /\ UNCHANGED <<cvars, evars, pvars, uvars, kvars, rvars, ignored, readyState, userId, authenticatedClients, setsCreated,
                   messages, messageStatus, typingStatus, received>>

(* ws.on('message'): case 'message_status' *)

OnMessageStatus(c, m, v, s) ==
    /\ CanReceive(c)
    /\ LET f == MessageStatusFrame(m, v, s)
           fid == NextFrame
       IN /\ received' = NextFrame
          /\ IF userId[c] = NoUser
             THEN tasks' = tasks
             ELSE /\ CanSuspend
                  /\ tasks' = tasks \cup
                       {[Task(fid, c, f) EXCEPT
                            !.pc = "updateMessageStatus",
                            !.conversationId = v,
                            !.messageId = m,
                            !.status = s,
                            !.senderId = userId[c],
                            !.uid = userId[c]]}
    /\ UNCHANGED <<cvars, evars, pvars, uvars, kvars, rvars, ignored, readyState, userId, authenticatedClients, setsCreated, outbox,
                   messages, messageStatus, typingStatus>>

\* await storage.updateMessageStatus(messageId, ws.userId, status) returns or throws
StatusUpdateMessageStatus(t) ==
    /\ t \in tasks /\ t.type = "message_status" /\ t.pc = "updateMessageStatus"
    /\ IF t.messageId \in 1..Len(messages) /\ t.uid \in Users
       THEN /\ messageStatus' = Append(messageStatus,
                   [messageId |-> t.messageId, userId |-> t.uid, status |-> t.status])
            /\ tasks' = (tasks \ {t}) \cup {[t EXCEPT !.pc = "getConversationMessages"]}
       ELSE \* foreign key violation: the insert throws, the handler logs it
            /\ messageStatus' = messageStatus
            /\ tasks' = tasks \ {t}
    /\ UNCHANGED <<cvars, evars, pvars, uvars, kvars, rvars, ignored, readyState, userId, authenticatedClients, setsCreated, outbox,
                   messages, typingStatus, received>>

\* await storage.getConversationMessages(conversationId, 1) returns:
\* the update goes to the sockets of messageData[0].sender
StatusGetConversationMessages(t) ==
    /\ t \in tasks /\ t.type = "message_status" /\ t.pc = "getConversationMessages"
    /\ LET messageData == getConversationMessages(messages, t.conversationId)
       IN IF Len(messageData) > 0 /\ messageData[1].senderId \in DOMAIN authenticatedClients
          THEN outbox' = ForEachSend(outbox, readyState,
                            authenticatedClients[messageData[1].senderId].items,
                            MessageStatusUpdate(t.messageId, userId[t.conn], t.status))
          ELSE outbox' = outbox
    /\ tasks' = tasks \ {t}
    /\ UNCHANGED <<cvars, evars, pvars, uvars, kvars, rvars, ignored, readyState, userId, authenticatedClients, setsCreated,
                   messages, messageStatus, typingStatus, received>>

(* ws.on('message'): a type the switch has no case for *)

OnUnknownTerminate(c) ==
    /\ CanReceive(c)
    /\ received' = NextFrame
    /\ ignored' = ignored \cup {<<c, userId[c]>>}
    /\ readyState' = [readyState EXCEPT ![c] = "CLOSED"]
    /\ authenticatedClients' = Unregister(authenticatedClients, userId[c], c)
    /\ UNCHANGED <<cvars, evars, pvars, uvars, kvars, rvars, userId, setsCreated, outbox, messages, messageStatus,
                   typingStatus, tasks>>

OnUnknown(c) ==
    /\ CanReceive(c)
    /\ received' = NextFrame
    /\ ignored' = ignored \cup {<<c, userId[c]>>}
    /\ UNCHANGED <<cvars, evars, pvars, uvars, kvars, rvars, readyState, userId, authenticatedClients, setsCreated,
                   outbox, messages, messageStatus, typingStatus, tasks>>

(* ws.on('message'): JSON.parse throws *)

OnMalformed(c) ==
    /\ CanReceive(c)
    /\ received' = NextFrame
    /\ outbox' = Send(outbox, readyState, c, Error("Invalid message format"))
    /\ UNCHANGED <<cvars, evars, pvars, uvars, kvars, rvars, ignored, readyState, userId, authenticatedClients, setsCreated,
                   messages, messageStatus, typingStatus, tasks>>

(* ws.on('close'): emitted, with readyState CLOSED, when the transport has closed *)

OnClose(c) ==
    /\ readyState[c] = "OPEN"
    /\ readyState' = [readyState EXCEPT ![c] = "CLOSED"]
    /\ authenticatedClients' = Unregister(authenticatedClients, userId[c], c)
    /\ UNCHANGED <<cvars, evars, pvars, uvars, kvars, rvars, ignored, userId, setsCreated, outbox, messages, messageStatus,
                   typingStatus, tasks, received>>

----------------------------------------------------------------------------
(* Client: WebSocketService (client/src/lib/websocket.ts)                  *)
(*                                                                         *)
(* Every connect() creates a WebSocket object whose four event handlers    *)
(* close over the resolve and reject of that call; the objects of earlier  *)
(* calls stay alive with their handlers attached until their transport     *)
(* has closed. The transport is the environment: it opens or fails,        *)
(* delivers frames and closes.                                             *)

(* Bounds *)

MaxSockets == 7        \* WebSocket objects created after a single connect() call
MaxCalls == 3          \* calls of the caller (connect, disconnect, send...)
MaxSessionSockets == 3 \* WebSocket objects created when the caller makes several calls

\* a behaviour is either one connect() followed by a long run of reconnects,
\* or several calls of the caller over a few sockets
Budgets == {[sockets |-> MaxSockets, calls |-> 1],
            [sockets |-> MaxSessionSockets, calls |-> MaxCalls]}

(* Fields of WebSocketService *)

maxReconnectAttempts == 5
reconnectDelay == 1000
NoPrincipal == "null"                \* value of this.userId before connect()

ClientUsers == {"u1"}                \* ids the caller passes to connect()

\* the frames of sendMessage, sendTypingStatus and sendMessageStatus
ApplicationFrames ==
    {[type |-> "send_message"], [type |-> "typing"], [type |-> "message_status"]}

\* the frames the transport delivers that connect() reacts to
ServerFrames == {[type |-> "authenticated"],
                 [type |-> "error", message |-> "Not authenticated"]}

RECURSIVE Pow2(_)
Pow2(k) == IF k = 0 THEN 1 ELSE 2 * Pow2(k - 1)

\* the second argument of setTimeout
ReconnectDelayLinear(k) == reconnectDelay * (k + 1)

ReconnectDelay(k) == reconnectDelay * Pow2(k)

\* !event.wasClean && this.reconnectAttempts < this.maxReconnectAttempts
CanReconnectInclusive(wasClean, n) == ~wasClean /\ n <= maxReconnectAttempts

CanReconnect(wasClean, n) == ~wasClean /\ n < maxReconnectAttempts

\* if (this.userId) in the timer callback
HasUserIdAlways(u) == TRUE

HasUserId(u) == u # NoPrincipal

\* new WebSocket(wsUrl), with the userId of the connect() call that made it;
\* `opened` tells whether the connection was established
NewWebSocket(u) ==
    [readyState |-> "CONNECTING", userId |-> u, opened |-> FALSE,
     sent |-> <<>>, code |-> 0]

\* ws.readyState of the k-th WebSocket object: an object whose close event
\* has been dispatched is dropped from `sockets`
ReadyState(socks, k) ==
    IF k \in DOMAIN socks THEN socks[k].readyState ELSE "CLOSED"

\* resolve() and reject(reason) of the connect() call that created socket k:
\* a promise settles once, and only the caller holds a promise
Resolve(ps, k) ==
    IF k \in DOMAIN ps /\ ps[k].state = "pending"
    THEN [ps EXCEPT ![k].state = "resolved"] ELSE ps

Reject(ps, k, why) ==
    IF k \in DOMAIN ps /\ ps[k].state = "pending"
    THEN [ps EXCEPT ![k] = [state |-> "rejected", reason |-> why]] ELSE ps

\* send(message): transmits on this.ws when it is open, otherwise logs
\* 'WebSocket not connected'
ClientSend(socks, w, f) ==
    IF ReadyState(socks, w) = "OPEN"
    THEN [socks EXCEPT ![w].sent = Append(@, f)]
    ELSE socks

\* isConnected()
IsConnected == ReadyState(sockets, ws) = "OPEN" /\ isAuthenticated

\* the body of connect(userId)
ConnectBody(u) ==
    /\ created < budget.sockets
    /\ created' = created + 1
    /\ sockets' = MapSet(sockets, created + 1, NewWebSocket(u))
    /\ ws' = created + 1
    /\ clientUserId' = u

(* the caller calls connect(userId) *)

Connect(u) ==
    /\ calls < budget.calls
    /\ calls' = calls + 1
    /\ ConnectBody(u)
    /\ promises' = MapSet(promises, created + 1, [state |-> "pending", reason |-> ""])
    /\ UNCHANGED <<reconnectAttempts, isAuthenticated, timers, reconnectsSinceAuth,
                   everOpened>>
    /\ UNCHANGED <<budget, vars, evars, pvars, uvars, kvars, rvars>>

(* ws.onopen of socket k *)

OnOpen(k) ==
    /\ ReadyState(sockets, k) = "CONNECTING"
    /\ reconnectAttempts' = 0
    /\ sockets' = ClientSend([sockets EXCEPT ![k].readyState = "OPEN",
                                             ![k].opened = TRUE],
                             ws, AuthenticateFrame(sockets[k].userId))
    /\ everOpened' = TRUE
    /\ UNCHANGED <<created, ws, isAuthenticated, clientUserId, timers, calls,
                   promises, reconnectsSinceAuth>>
    /\ UNCHANGED <<budget, vars, evars, pvars, uvars, kvars, rvars>>

(* ws.onmessage of socket k; no handler is registered in messageHandlers *)

OnMessage(k, f) ==
    /\ ReadyState(sockets, k) = "OPEN"
    /\ IF f.type = "authenticated"
       THEN /\ isAuthenticated' = TRUE
            /\ promises' = Resolve(promises, k)
            /\ reconnectsSinceAuth' = 0
       ELSE /\ promises' = IF f.type = "error" /\ ~isAuthenticated
                           THEN Reject(promises, k, f.message) ELSE promises
            /\ UNCHANGED <<isAuthenticated, reconnectsSinceAuth>>
    /\ UNCHANGED <<created, sockets, ws, reconnectAttempts, clientUserId, timers,
                   calls, everOpened>>
    /\ UNCHANGED <<budget, vars, evars, pvars, uvars, kvars, rvars>>

(* the transport of socket k has closed: ws.onerror (when the connection   *)
(* failed) and ws.onclose run in one task                                  *)

TransportCloses(k, wasClean, failed) ==
    /\ k \in DOMAIN sockets
    /\ sockets[k].opened \/ (~wasClean /\ failed)
    /\ wasClean => ~failed
    /\ sockets' = MapDelete(sockets, k)
    /\ promises' = IF failed /\ ~isAuthenticated
                   THEN Reject(promises, k, "error event") ELSE promises
    /\ isAuthenticated' = FALSE
    /\ timers' = IF CanReconnect(wasClean, reconnectAttempts)
                 THEN Append(timers, [delay |-> ReconnectDelay(reconnectAttempts),
                                      attempts |-> reconnectAttempts])
                 ELSE timers
    /\ UNCHANGED <<created, ws, reconnectAttempts, clientUserId, calls,
                   reconnectsSinceAuth, everOpened>>
    /\ UNCHANGED <<budget, vars, evars, pvars, uvars, kvars, rvars>>

(* the callback of the i-th pending setTimeout runs *)

TimerFires(i) ==
    /\ i \in 1..Len(timers)
    /\ timers' = SubSeq(timers, 1, i - 1) \o SubSeq(timers, i + 1, Len(timers))
    /\ reconnectAttempts' = reconnectAttempts + 1
    /\ IF HasUserId(clientUserId)
       THEN /\ ConnectBody(clientUserId)
            /\ reconnectsSinceAuth' = reconnectsSinceAuth + 1
       ELSE UNCHANGED <<created, sockets, ws, clientUserId, reconnectsSinceAuth>>
    /\ UNCHANGED <<isAuthenticated, calls, promises, everOpened>>
    /\ UNCHANGED <<budget, vars, evars, pvars, uvars, kvars, rvars>>

(* the caller calls disconnect() *)

Disconnect ==
    /\ calls < budget.calls
    /\ calls' = calls + 1
    /\ sockets' = IF ReadyState(sockets, ws) \in {"CONNECTING", "OPEN"}
                  THEN [sockets EXCEPT ![ws].readyState = "CLOSING",
                                       ![ws].code = 1000]
                  ELSE sockets
    /\ ws' = 0
    /\ isAuthenticated' = FALSE
    /\ clientUserId' = NoPrincipal
    /\ UNCHANGED <<created, reconnectAttempts, timers, promises,
                   reconnectsSinceAuth, everOpened>>
    /\ UNCHANGED <<budget, vars, evars, pvars, uvars, kvars, rvars>>

(* the caller calls sendMessage, sendTypingStatus or sendMessageStatus *)

SendApplication(f) ==
    /\ calls < budget.calls
    /\ calls' = calls + 1
    /\ sockets' = ClientSend(sockets, ws, f)
    /\ UNCHANGED <<created, ws, reconnectAttempts, isAuthenticated, clientUserId,
                   timers, promises, reconnectsSinceAuth, everOpened>>
    /\ UNCHANGED <<budget, vars, evars, pvars, uvars, kvars, rvars>>

----------------------------------------------------------------------------
(***************************************************************************)
(* Presence: the typing marks of table typing_status (server/storage.ts)   *)
(* read and written while the clock of the database advances.              *)
(***************************************************************************)

(* Bounds *)

MaxMarks == 2          \* rows inserted into typing_status in one behaviour
MaxTime == 6           \* seconds the clock of the database advances

\* a caller awaits storage.updateTypingStatus(v, u, isTyping); the foreign
\* keys of the row hold
UpdateTypingStatus(v, u, isTyping) ==
    /\ Len(typingStatus) < MaxMarks
    /\ typingStatus' = updateTypingStatus(typingStatus, v, u, isTyping, now)
    /\ UNCHANGED <<pvars, uvars, kvars, rvars, cvars, evars, readyState, userId, authenticatedClients, setsCreated,
                   outbox, messages, messageStatus, tasks, received, ignored>>

\* a caller awaits storage.getTypingUsers(v)
GetTypingUsers(v) ==
    /\ liveTypers' = [liveTypers EXCEPT ![v] = getTypingUsers(typingStatus, v, now)]
    /\ UNCHANGED <<now, typingStatus, cvars, evars, uvars, kvars, rvars, readyState, userId, authenticatedClients, setsCreated,
                   outbox, messages, messageStatus, tasks, received, ignored>>

\* a second passes
Tick ==
    /\ now < MaxTime
    /\ now' = now + 1
    /\ UNCHANGED <<liveTypers, typingStatus, cvars, evars, uvars, kvars, rvars, readyState, userId, authenticatedClients, setsCreated,
                   outbox, messages, messageStatus, tasks, received, ignored>>

----------------------------------------------------------------------------
(***************************************************************************)
(* End-to-end encryption: EncryptionService (client/src/lib/encryption.ts),*)
(* sendMessage of the chat hook, the key endpoint of the server, the       *)
(* message bubble that decrypts, the media sender, and the key generation  *)
(* of signup and login.                                                    *)
(*                                                                         *)
(* Cryptography is symbolic: a ciphertext is a term that names the key it  *)
(* was made under and gives its plaintext to that key only; generated keys *)
(* and nonces are fresh. Every value that travels is tagged with its kind. *)
(***************************************************************************)

(* Bounds *)

MaxAesKeys == 2        \* AES keys generateAESKey returns in one behaviour
MaxKeyPairs == 1       \* RSA key pairs generateKeyPair returns in one behaviour

(* JavaScript strings *)

\* the texts a user sends, as UTF-16 code units: "a" is a letter of the
\* basic plane, "hi" a high surrogate and "lo" a low surrogate
Texts == {<<>>, <<"a">>, <<"hi", "lo">>, <<"hi">>, <<"lo", "a">>}

Str(units) == [kind |-> "string", units |-> units]
Undefined == [kind |-> "undefined"]

\* JSON.stringify(value) and JSON.parse(text) of an object whose strings are
\* identifiers and base64 text
JsonStringify(value) == [kind |-> "json", value |-> value]
JsonParse(text) == text.value

\* new TextEncoder().encode(message): the UTF-8 bytes of the string, an
\* unpaired surrogate encoded as U+FFFD; the text of JSON.stringify has no
\* unpaired surrogate and is carried whole
RECURSIVE Utf8Encode(_)
Utf8Encode(units) ==
    IF units = <<>> THEN <<>>
    ELSE IF Len(units) >= 2 /\ units[1] = "hi" /\ units[2] = "lo"
         THEN <<240, 159, 152, 128>> \o Utf8Encode(SubSeq(units, 3, Len(units)))
    ELSE IF units[1] \in {"hi", "lo", "fffd"}
         THEN <<239, 191, 189>> \o Utf8Encode(Tail(units))
    ELSE <<97>> \o Utf8Encode(Tail(units))

Encode(message) ==
    IF message.kind = "string"
    THEN [kind |-> "bytes", bytes |-> Utf8Encode(message.units)]
    ELSE [kind |-> "bytes of", text |-> message]

\* new TextDecoder().decode(buffer) of the bytes TextEncoder made
RECURSIVE Utf8Decode(_)
Utf8Decode(bytes) ==
    IF bytes = <<>> THEN <<>>
    ELSE IF bytes[1] = 240
         THEN <<"hi", "lo">> \o Utf8Decode(SubSeq(bytes, 5, Len(bytes)))
    ELSE IF bytes[1] = 239
         THEN <<"fffd">> \o Utf8Decode(SubSeq(bytes, 4, Len(bytes)))
    ELSE <<"a">> \o Utf8Decode(Tail(bytes))

DecodeBytewise(buffer) ==
    IF buffer.kind = "bytes"
    THEN Str([i \in DOMAIN buffer.bytes |-> IF buffer.bytes[i] = 97 THEN "a" ELSE "fffd"])
    ELSE buffer.text
Decode(buffer) ==
    IF buffer.kind = "bytes" THEN Str(Utf8Decode(buffer.bytes)) ELSE buffer.text

\* arrayBufferToBase64(buffer) and base64ToArrayBuffer(base64)
arrayBufferToBase64(buffer) == [kind |-> "base64", of |-> buffer]
base64ToArrayBuffer(base64) == base64.of

(* EncryptionService *)

\* the outcome of an awaited call: a value, or the error it rejected with
Returned(value) == [ok |-> TRUE, value |-> value]
Thrown(from) == [ok |-> FALSE, error |-> [name |-> "OperationError", from |-> from]]

\* exportPublicKey and exportPrivateKey of the key pair numbered pair, and
\* importPublicKey and importPrivateKey of what they return
exportPublicKey(pair) == arrayBufferToBase64([kind |-> "spki", pair |-> pair])
exportPrivateKey(pair) == arrayBufferToBase64([kind |-> "pkcs8", pair |-> pair])
importPublicKey(publicKeyData) == base64ToArrayBuffer(publicKeyData).pair
importPrivateKey(privateKeyData) == base64ToArrayBuffer(privateKeyData).pair

\* generateAESKey(): a key no earlier call returned; keys are numbered
generateAESKeyAgain(keys) == IF keys = <<>> THEN 1 ELSE Len(keys)
generateAESKey(keys) == Len(keys) + 1

\* crypto.subtle.exportKey("raw", aesKey)
ExportRaw(aesKey) == [kind |-> "raw", key |-> aesKey]

\* the AES keys with one more payload encrypted under aesKey
Encrypted(keys, aesKey) ==
    IF aesKey > Len(keys) THEN Append(keys, 1)
    ELSE [keys EXCEPT ![aesKey] = @ + 1]

RECURSIVE Sum(_)
Sum(s) == IF s = <<>> THEN 0 ELSE Head(s) + Sum(Tail(s))

\* crypto.getRandomValues(new Uint8Array(12)): a nonce no earlier call returned
RandomIv(keys) == [kind |-> "iv", n |-> Sum(keys) + 1]

\* encryptMessage(message, aesKey) with the nonce it drew
encryptMessage(message, aesKey, iv) ==
    [encryptedData |-> arrayBufferToBase64(
         [kind |-> "AES-GCM", key |-> aesKey, iv |-> iv, data |-> Encode(message)]),
     iv |-> arrayBufferToBase64(iv)]

\* decryptMessage(encryptedData, iv, aesKey)
decryptMessage(encryptedData, iv, aesKey) ==
    LET encrypted == base64ToArrayBuffer(encryptedData)
        ivBuffer == base64ToArrayBuffer(iv)
    IN IF encrypted.key = aesKey /\ encrypted.iv = ivBuffer
       THEN Returned(Decode(encrypted.data))
       ELSE Thrown("decryptMessage")

\* encryptBlob(blob, aesKey) with the nonce it drew
encryptBlob(blob, aesKey, iv) ==
    [encryptedBlob |-> [kind |-> "AES-GCM", key |-> aesKey, iv |-> iv, data |-> blob],
     iv |-> arrayBufferToBase64(iv)]

\* encryptAESKey(aesKey, publicKey)
encryptAESKey(aesKey, publicKey) ==
    arrayBufferToBase64([kind |-> "RSA-OAEP", pair |-> publicKey,
                         data |-> ExportRaw(aesKey)])

\* decryptAESKey(encryptedKey, privateKey); atob throws on what is no base64
\* text, crypto.subtle.decrypt on what the private key does not open
decryptAESKey(encryptedKey, privateKey) ==
    IF encryptedKey.kind = "base64" /\ base64ToArrayBuffer(encryptedKey).pair = privateKey
    THEN Returned(base64ToArrayBuffer(encryptedKey).data.key)
    ELSE Thrown("decryptAESKey")

(* Server: GET /api/conversations/:id/keys *)

\* the key pair each user generated when signing up
UserPair(u) == CASE u = "u1" -> 1 [] u = "u2" -> 2 [] u = "u3" -> 3

\* column public_key of table users
publicKey == [u \in Users |-> exportPublicKey(UserPair(u))]

\* storage.getConversationParticipants(conversationId): the users joined
\* with conversation_participants
getConversationParticipants(v) ==
    [i \in DOMAIN conversationParticipants[v] |->
        [id |-> conversationParticipants[v][i],
         username |-> conversationParticipants[v][i],
         publicKey |-> publicKey[conversationParticipants[v][i]]]]

\* the response to an authenticated request of user requester
GetConversationKeys(requester, v) ==
    IF ~getConversation(v) THEN [ok |-> FALSE, status |-> 404]
    ELSE IF v \notin getUserConversations(requester) THEN [ok |-> FALSE, status |-> 403]
    ELSE [ok |-> TRUE, status |-> 200, participants |-> getConversationParticipants(v)]

\* what fetch resolves with in sendMessage for conversation v: the response
\* of the endpoint to the user, or a 200 response whose list of participants
\* is empty
KeyResponses(v) ==
    {GetConversationKeys(requester, v) : requester \in Users}
        \cup {[ok |-> TRUE, status |-> 200, participants |-> <<>>]}

(* Client: sendMessage of useChat *)

\* the encryptedKeys object the loop over conversationData.participants fills
WrapKeysButFirst(participants, messageKey) ==
    [id \in {participants[i].id : i \in DOMAIN participants \ {1}} |->
        encryptAESKey(messageKey, importPublicKey(
            participants[CHOOSE i \in DOMAIN participants :
                /\ participants[i].id = id
                /\ \A j \in DOMAIN participants :
                       participants[j].id = id => j <= i].publicKey))]
WrapKeys(participants, messageKey) ==
    [id \in {participants[i].id : i \in DOMAIN participants} |->
        encryptAESKey(messageKey, importPublicKey(
            participants[CHOOSE i \in DOMAIN participants :
                /\ participants[i].id = id
                /\ \A j \in DOMAIN participants :
                       participants[j].id = id => j <= i].publicKey))]

\* a request or frame handed to the network
Request(to, body) == [to |-> to, body |-> body]

\* the frame of websocketService.sendMessage
ClientSendMessage(v, encryptedContent, messageType, metadata) ==
    Request("ws", JsonStringify(
        [type |-> Str("send_message"), conversationId |-> Str(v),
         encryptedContent |-> encryptedContent, messageType |-> Str(messageType),
         metadata |-> metadata]))

\* nothing built yet, nothing decrypted yet
NotSealed == [built |-> FALSE]
NotDecrypted == [decrypted |-> FALSE]

\* sendMessage(content, messageType, metadata) in conversation v when fetch
\* resolves with response; st holds the AES keys, the last envelope and the
\* requests of the running operation
sendMessage(st, v, content, messageType, metadata, response) ==
    LET get == Request("/api/conversations/:id/keys", Undefined)
    IN IF ~response.ok
       THEN \* throw new Error('Failed to get conversation keys')
            [st EXCEPT !.sent = @ \cup {get}]
       ELSE LET messageKey == generateAESKey(st.aesKeys)
                e == encryptMessage(content, messageKey, RandomIv(st.aesKeys))
                encryptedKeys == WrapKeys(response.participants, messageKey)
                encryptedContent ==
                    JsonStringify([encryptedData |-> e.encryptedData, iv |-> e.iv,
                                   encryptedKeys |->
                                       [kind |-> "object", value |-> encryptedKeys]])
            IN [aesKeys |-> Encrypted(st.aesKeys, messageKey),
                sealed |-> [built |-> TRUE, conversationId |-> v, content |-> content,
                            participants |-> response.participants,
                            messageKey |-> messageKey,
                            encryptedContent |-> encryptedContent],
                sent |-> st.sent \cup
                    {get, ClientSendMessage(v, encryptedContent, messageType, metadata)}]

\* the user sends the text content in conversation v
SendText(v, content, response) ==
    /\ Len(aesKeys) < MaxAesKeys
    /\ LET r == sendMessage([aesKeys |-> aesKeys, sealed |-> sealed, sent |-> {}],
                            v, Str(content), "text", Undefined, response)
       IN /\ aesKeys' = r.aesKeys
          /\ sealed' = r.sealed
          /\ sent' = r.sent
    \* the bubble of a new message has decrypted nothing yet
    /\ decryptedContent' = IF response.ok THEN NotDecrypted ELSE decryptedContent
    /\ UNCHANGED <<localStorage, keyPairs, pvars, uvars, kvars, rvars, cvars, vars>>

(* Client: handleMediaMessage of the message input *)

Files == {[kind |-> "file", name |-> <<"a">>, type |-> "image"]}

\* the encryptedMetadata object
MediaMetadataWithKey(file, encryptedBase64, iv, mediaKeyBase64) ==
    [kind |-> "object",
     value |-> [fileName |-> Str(file.name), fileSize |-> Str(<<>>),
                fileType |-> Str(<<>>), encryptedData |-> encryptedBase64, iv |-> iv,
                mediaKey |-> mediaKeyBase64]]
MediaMetadata(file, encryptedBase64, iv, mediaKeyBase64) ==
    [kind |-> "object",
     value |-> [fileName |-> Str(file.name), fileSize |-> Str(<<>>),
                fileType |-> Str(<<>>), encryptedData |-> encryptedBase64, iv |-> iv]]

\* the messageContent string
MediaContent(file, mediaKeyBase64) ==
    JsonStringify([type |-> Str("media"), fileName |-> Str(file.name),
                   mediaKey |-> mediaKeyBase64])

\* the user sends file in conversation v
HandleMediaMessage(v, file, response) ==
    /\ Len(aesKeys) + 1 < MaxAesKeys
    /\ LET mediaKey == generateAESKey(aesKeys)
           b == encryptBlob(file, mediaKey, RandomIv(aesKeys))
           mediaKeyBase64 == arrayBufferToBase64(ExportRaw(mediaKey))
           r == sendMessage([aesKeys |-> Encrypted(aesKeys, mediaKey),
                             sealed |-> sealed, sent |-> {}],
                            v, MediaContent(file, mediaKeyBase64), file.type,
                            MediaMetadata(file, arrayBufferToBase64(b.encryptedBlob),
                                          b.iv, mediaKeyBase64),
                            response)
       IN /\ aesKeys' = r.aesKeys
          /\ sealed' = r.sealed
          /\ sent' = r.sent
    \* the bubble of a new message has decrypted nothing yet
    /\ decryptedContent' = IF response.ok THEN NotDecrypted ELSE decryptedContent
    /\ UNCHANGED <<localStorage, keyPairs, pvars, uvars, kvars, rvars, cvars, vars>>

(* Client: decryptMessage of MessageBubble *)

Notice(text) == [kind |-> "notice", text |-> text]

\* !value of a property that is a string when present
IsFalsyNever(value) == FALSE
IsFalsy(value) ==
    \/ value.kind = "undefined"
    \/ value.kind = "string" /\ value.units = <<>>

\* object[key]
Property(object, key) == IF key \in DOMAIN object THEN object[key] ELSE Undefined

\* catch (error): console.error and setDecryptedContent
CaughtFrom(error) == Notice(error.from)
Caught(error) == Notice("Failed to decrypt message")

\* what the bubble shows for message.encryptedContent when localStorage
\* holds currentUserId and privateKeyData
BubbleDecryptMessage(encryptedContent, currentUserId, privateKeyData) ==
    LET encryptedData == JsonParse(encryptedContent)
        privateKey == importPrivateKey(privateKeyData)
        encryptedKey == Property(encryptedData.encryptedKeys.value, currentUserId)
    IN IF IsFalsy(encryptedKey)
       THEN Notice("Unable to decrypt: key not available for this user")
       ELSE LET messageKey == decryptAESKey(encryptedKey, privateKey)
            IN IF ~messageKey.ok THEN Caught(messageKey.error)
               ELSE LET content == decryptMessage(encryptedData.encryptedData,
                                                  encryptedData.iv, messageKey.value)
                    IN IF ~content.ok THEN Caught(content.error)
                       ELSE content.value

\* what the store or the network did to the stored envelope
Alterations == {"none", "encryptedData", "encryptedKey"}

\* message.encryptedContent as the bubble of user id receives it: a byte of
\* the ciphertext, or of the key wrapped for id, may have changed, and a
\* changed ciphertext opens under no key
Received(encryptedContent, how, id) ==
    LET e == JsonParse(encryptedContent)
    IN CASE how = "none" -> encryptedContent
         [] how = "encryptedData" ->
                JsonStringify([e EXCEPT !.encryptedData =
                    arrayBufferToBase64([@.of EXCEPT !.key = 0])])
         [] how = "encryptedKey" ->
                JsonStringify([e EXCEPT !.encryptedKeys.value =
                    [i \in DOMAIN @ |->
                        IF i = id THEN arrayBufferToBase64([@[i].of EXCEPT !.pair = 0])
                        ELSE @[i]]])

\* the bubble of the last envelope renders in a browser whose localStorage holds
\* currentUserId and the private key of pair
DecryptMessage(how, currentUserId, pair) ==
    /\ sealed.built
    /\ decryptedContent' =
           [decrypted |-> TRUE, how |-> how,
            currentUserId |-> currentUserId, pair |-> pair,
            content |-> BubbleDecryptMessage(
                Received(sealed.encryptedContent, how, currentUserId),
                currentUserId, exportPrivateKey(pair))]
    /\ UNCHANGED <<localStorage, keyPairs, aesKeys, sealed, sent, pvars, uvars, kvars, rvars, cvars, vars>>

(* Client: key generation of signup and login *)

\* the usernames typed into the forms of this browser
Usernames == {"u4", "u5"}

\* generateKeyPair(): the number of the pair; the pairs of the users of
\* table users were generated before
generateKeyPair(n) == Cardinality(Users) + n + 1

\* the registrationData object of onSignup
RegistrationDataWithKey(username, publicKeyData, privateKeyData) ==
    JsonStringify([username |-> Str(username), password |-> Str(<<>>),
                   publicKey |-> publicKeyData, privateKey |-> privateKeyData])
RegistrationData(username, publicKeyData, privateKeyData) ==
    JsonStringify([username |-> Str(username), password |-> Str(<<>>),
                   publicKey |-> publicKeyData])

\* table users: no row of the username, or the public_key of its row
NoRow == [kind |-> "none"]

\* storage.createUser(insertUser): username is unique, the insert of a taken
\* username throws
createUser(rows, username, publicKeyData) ==
    IF rows[username] # NoRow THEN Thrown("createUser")
    ELSE Returned([rows EXCEPT ![username] = publicKeyData])

\* storage.updateUserPublicKey(id, publicKey) of the user logged in
updateUserPublicKey(rows, username, publicKeyData) ==
    [rows EXCEPT ![username] = publicKeyData]

\* onSignup(data), and registerMutation with the answer of the server
Signup(username) ==
    /\ keyPairs < MaxKeyPairs
    /\ LET pair == generateKeyPair(keyPairs)
           created_ == createUser(userRows, username, exportPublicKey(pair))
       IN /\ localStorage' = [localStorage EXCEPT ![username] = exportPrivateKey(pair)]
          /\ sent' = {Request("/api/register",
                         RegistrationData(username, exportPublicKey(pair),
                                          exportPrivateKey(pair)))}
          /\ IF created_.ok
             THEN /\ userRows' = created_.value
                  /\ currentUsername' = Str(<<username>>)
             ELSE UNCHANGED <<userRows, currentUsername>>
    /\ keyPairs' = keyPairs + 1
    /\ UNCHANGED <<aesKeys, sealed, decryptedContent, pvars, uvars, rvars, cvars, vars>>

\* loginMutation: the request, and onSuccess when the server has a row of
\* the username
Login(username) ==
    LET login == Request("/api/login",
                     JsonStringify([username |-> Str(username), password |-> Str(<<>>)]))
    IN /\ IF userRows[username] = NoRow
          THEN /\ sent' = {login}
               /\ UNCHANGED <<localStorage, keyPairs, userRows, currentUsername>>
          ELSE /\ currentUsername' = Str(<<username>>)
               /\ IF IsFalsy(localStorage[username]) /\ IsFalsy(userRows[username])
                  THEN /\ keyPairs < MaxKeyPairs
                       /\ LET pair == generateKeyPair(keyPairs)
                          IN /\ localStorage' = [localStorage EXCEPT
                                    ![username] = exportPrivateKey(pair)]
                             /\ sent' = {login, Request("/api/user/update-keys",
                                    JsonStringify([publicKey |-> exportPublicKey(pair)]))}
                             /\ userRows' = updateUserPublicKey(userRows, username,
                                                                exportPublicKey(pair))
                       /\ keyPairs' = keyPairs + 1
                  ELSE /\ sent' = {login}
                       /\ UNCHANGED <<localStorage, keyPairs, userRows>>
       /\ UNCHANGED <<aesKeys, sealed, decryptedContent, pvars, uvars, rvars, cvars, vars>>

\* logoutMutation of a user who is logged in: the request, and onSuccess
Logout ==
    /\ ~IsFalsy(currentUsername)
    /\ sent' = {Request("/api/logout", JsonStringify(<<>>))}
    /\ localStorage' = [localStorage EXCEPT ![currentUsername.units[1]] = Undefined]
    /\ currentUsername' = Undefined
    /\ UNCHANGED <<keyPairs, userRows>>
    /\ UNCHANGED <<aesKeys, sealed, decryptedContent, pvars, uvars, rvars, cvars, vars>>

----------------------------------------------------------------------------
(***************************************************************************)
(* Chat: the hook useChat (client/src/hooks/use-chat.tsx) over the         *)
(* handler map of WebSocketService, and the message input of the chat area *)
(* (client/src/components).                                                *)
(*                                                                         *)
(* React renders between two events, so a handler that runs sees the state *)
(* of the render it was created in, and the effects of a render run before *)
(* the next event is handled.                                              *)
(***************************************************************************)

(* Universe *)
NoConversation == "null"
ChatConversations == {"v1", "v2"}

\* a created_at of the store as it arrives in JSON, and new Date(s).getTime()
Iso(t) == [kind |-> "iso", seconds |-> t]
GetTime(createdAt) == createdAt.seconds

ChatMessage(id, v, t) ==
    [kind |-> "message", id |-> id, conversationId |-> v, createdAt |-> Iso(t)]

\* the messages the server may fan out to this client: ids are unique
ChatMessageInputs ==
    {ChatMessage("m1", "v1", 2), ChatMessage("m2", "v1", 1),
     ChatMessage("m3", "v2", 1)}

\* the frames the server may send that are neither authenticated nor error
ChatFrames ==
    {NewMessage(m, "u1") : m \in ChatMessageInputs \cup {Undefined}}
    \cup {TypingStatusFrame(v, u, u, b) :
             v \in ChatConversations, u \in {"u1"}, b \in BOOLEAN}
    \cup {MessageStatusUpdate("m1", "u1", "read")}

FrameTypes == {"new_message", "typing_status", "message_status_update"}

(* WebSocketService: messageHandlers *)

\* this.messageHandlers.set(type, handler)
onMessageKeepFirst(handlers, type, handler) ==
    IF type \in DOMAIN handlers THEN handlers ELSE MapSet(handlers, type, handler)
onMessage(handlers, type, handler) == MapSet(handlers, type, handler)

\* this.messageHandlers.delete(type)
offMessage(handlers, type) == MapDelete(handlers, type)

(* useChat: the handlers of one run of the effect close over conversationId *)

Handler(name, v) == [name |-> name, conversationId |-> v]

\* a handler some other caller of the exported websocketService registers
OtherHandler == Handler("other", NoConversation)

\* array.sort(compare) is stable: insert the last element behind every
\* element that does not compare greater
RECURSIVE InsertSorted(_, _)
InsertSorted(list, m) ==
    IF list = <<>> THEN <<m>>
    ELSE IF GetTime(list[Len(list)].createdAt) - GetTime(m.createdAt) > 0
         THEN Append(InsertSorted(SubSeq(list, 1, Len(list) - 1), m), list[Len(list)])
         ELSE Append(list, m)
RECURSIVE SortByCreatedAt(_)
SortByCreatedAt(list) ==
    IF list = <<>> THEN <<>>
    ELSE InsertSorted(SortByCreatedAt(SubSeq(list, 1, Len(list) - 1)), list[Len(list)])

\* handleNewMessage(data) of the effect that ran with conversationId = v
handleNewMessageNoDedupe(v, prev, data) ==
    IF ~IsFalsy(data.message)
          /\ (v = NoConversation \/ data.message.conversationId = v)
    THEN SortByCreatedAt(Append(prev, data.message))
    ELSE prev
handleNewMessage(v, prev, data) ==
    IF ~IsFalsy(data.message)
          /\ (v = NoConversation \/ data.message.conversationId = v)
    THEN IF \E i \in 1..Len(prev) : prev[i].id = data.message.id
         THEN prev
         ELSE SortByCreatedAt(Append(prev, data.message))
    ELSE prev

\* handleTypingStatus(data) of the effect that ran with conversationId = v,
\* at time t
handleTypingStatus(v, prev, data, t) ==
    IF v = NoConversation \/ data.conversationId # v THEN prev
    ELSE LET filtered == SelectSeq(prev, LAMBDA u : u.id # data.userId)
         IN IF data.isTyping
            THEN Append(filtered, [id |-> data.userId, username |-> data.username,
                                   createdAt |-> t])
            ELSE filtered

\* the three handlers of the effect that ran with conversationId = v
HookHandler(type, v) ==
    Handler(CASE type = "new_message" -> "handleNewMessage"
              [] type = "typing_status" -> "handleTypingStatus"
              [] OTHER -> "handleMessageStatusUpdate", v)

\* the cleanup of the previous run of the effect, then its next run
RunHandlerEffect(handlers, v) ==
    LET cleaned == offMessage(offMessage(offMessage(handlers, "new_message"),
                                         "typing_status"), "message_status_update")
    IN onMessage(onMessage(onMessage(cleaned,
            "new_message", HookHandler("new_message", v)),
            "typing_status", HookHandler("typing_status", v)),
            "message_status_update", HookHandler("message_status_update", v))

\* the chat area is rendered with another conversationId: both effects of
\* useChat that depend on it run
SelectConversation(v) ==
    /\ v # chatConversationId
    /\ chatConversationId' = v
    /\ messageHandlers' = RunHandlerEffect(messageHandlers, v)
    /\ lastCall' = [type \in FrameTypes |->
                       [op |-> "onMessage", handler |-> HookHandler(type, v)]]
    /\ chatMessages' = <<>>
    /\ typingUsers' = <<>>
    /\ UNCHANGED <<clock, invoked, isConnected, messageText, inputIsTyping,
                   typingTimeoutRef, typingSent, lastInputAt>>
    /\ UNCHANGED <<vars, cvars, evars, pvars, kvars, rvars>>

\* another caller calls websocketService.onMessage(type, handler)
OnMessageCall(type) ==
    /\ messageHandlers' = onMessage(messageHandlers, type, OtherHandler)
    /\ lastCall' = [lastCall EXCEPT ![type] = [op |-> "onMessage", handler |-> OtherHandler]]
    /\ UNCHANGED <<clock, chatConversationId, chatMessages, typingUsers, invoked, isConnected, messageText, inputIsTyping,
                   typingTimeoutRef, typingSent, lastInputAt>>
    /\ UNCHANGED <<vars, cvars, evars, pvars, kvars, rvars>>

\* another caller calls websocketService.offMessage(type)
OffMessageCall(type) ==
    /\ messageHandlers' = offMessage(messageHandlers, type)
    /\ lastCall' = [lastCall EXCEPT ![type] = [op |-> "offMessage", handler |-> OtherHandler]]
    /\ UNCHANGED <<clock, chatConversationId, chatMessages, typingUsers, invoked, isConnected, messageText, inputIsTyping,
                   typingTimeoutRef, typingSent, lastInputAt>>
    /\ UNCHANGED <<vars, cvars, evars, pvars, kvars, rvars>>

\* ws.onmessage of an open transport is given a frame that is neither
\* authenticated nor error: the handler registered for its type runs
HandleFrame(f) ==
    /\ IF f.type \in DOMAIN messageHandlers
       THEN LET handler == messageHandlers[f.type]
            IN /\ invoked' = <<handler>>
               /\ chatMessages' =
                      IF handler.name = "handleNewMessage"
                      THEN handleNewMessage(handler.conversationId, chatMessages, f)
                      ELSE chatMessages
               /\ typingUsers' =
                      IF handler.name = "handleTypingStatus"
                      THEN handleTypingStatus(handler.conversationId, typingUsers, f, clock)
                      ELSE typingUsers
       ELSE /\ invoked' = <<>>
            /\ UNCHANGED <<chatMessages, typingUsers>>
    /\ UNCHANGED <<clock, chatConversationId, messageHandlers, lastCall, isConnected, messageText, inputIsTyping,
                   typingTimeoutRef, typingSent, lastInputAt>>
    /\ UNCHANGED <<vars, cvars, evars, pvars, kvars, rvars>>

(* The message input of the chat area *)

MaxInput == 2          \* characters in the message input

typingIdleTimeout == 3 \* setTimeout(..., 3000), in seconds

\* the callback given to setTimeout closes over isTyping and over the
\* sendTypingStatus (hence conversationId and isConnected) of the render in
\* which handleTyping was created
Timeout(due, typing, v, connected) ==
    [due |-> due, isTyping |-> typing, conversationId |-> v,
     isConnected |-> connected, pending |-> TRUE]
NoTimeout ==
    [due |-> 0, isTyping |-> FALSE, conversationId |-> NoConversation,
     isConnected |-> FALSE, pending |-> FALSE]

\* sendTypingStatus(isTyping) of the render with conversationId = v and
\* isConnected = connected: the typing frame handed to the service
sendTypingStatus(last, v, connected, typing) ==
    IF v = NoConversation \/ ~connected THEN last
    ELSE <<[conversationId |-> v, isTyping |-> typing]>>

\* websocketService.connect(user.id) of the hook resolves: setIsConnected(true)
ConnectResolves ==
    /\ ~isConnected
    /\ isConnected' = TRUE
    /\ UNCHANGED <<clock, chatConversationId, chatMessages, typingUsers, messageHandlers,
                   invoked, lastCall, messageText, inputIsTyping, typingTimeoutRef,
                   typingSent, lastInputAt>>
    /\ UNCHANGED <<vars, cvars, evars, pvars, kvars, rvars>>

\* onChange of the input: handleTyping(text), text of `length` characters
HandleTyping(length) ==
    /\ length # messageText
    /\ messageText' = length
    /\ lastInputAt' = clock
    /\ IF chatConversationId = NoConversation
       THEN UNCHANGED <<inputIsTyping, typingSent, typingTimeoutRef>>
       ELSE /\ IF ~inputIsTyping /\ length > 0
               THEN /\ inputIsTyping' = TRUE
                    /\ typingSent' = sendTypingStatus(typingSent, chatConversationId,
                                                      isConnected, TRUE)
               ELSE UNCHANGED <<inputIsTyping, typingSent>>
            /\ typingTimeoutRef' = Timeout(clock + typingIdleTimeout, inputIsTyping,
                                           chatConversationId, isConnected)
    /\ UNCHANGED <<clock, chatConversationId, chatMessages, typingUsers, messageHandlers,
                   invoked, lastCall, isConnected>>
    /\ UNCHANGED <<vars, cvars, evars, pvars, kvars, rvars>>

\* the callback of typingTimeoutRef.current runs
TimeoutRuns ==
    /\ typingTimeoutRef.pending
    /\ clock >= typingTimeoutRef.due
    /\ typingTimeoutRef' = NoTimeout
    /\ IF typingTimeoutRef.isTyping
       THEN /\ inputIsTyping' = FALSE
            /\ typingSent' = sendTypingStatus(typingSent, typingTimeoutRef.conversationId,
                                              typingTimeoutRef.isConnected, FALSE)
       ELSE UNCHANGED <<inputIsTyping, typingSent>>
    /\ UNCHANGED <<clock, chatConversationId, chatMessages, typingUsers, messageHandlers,
                   invoked, lastCall, isConnected, messageText, lastInputAt>>
    /\ UNCHANGED <<vars, cvars, evars, pvars, kvars, rvars>>

\* handleSendMessage() with a text to send; sendMessage resolves (ok) or throws
HandleSendMessage(ok) ==
    /\ messageText > 0
    /\ chatConversationId # NoConversation
    /\ lastInputAt' = clock
    /\ IF ok
       THEN /\ messageText' = 0
            /\ IF inputIsTyping
               THEN /\ inputIsTyping' = FALSE
                    /\ typingSent' = sendTypingStatus(typingSent, chatConversationId,
                                                      isConnected, FALSE)
               ELSE UNCHANGED <<inputIsTyping, typingSent>>
       ELSE UNCHANGED <<messageText, inputIsTyping, typingSent>>
    /\ UNCHANGED <<clock, chatConversationId, chatMessages, typingUsers, messageHandlers,
                   invoked, lastCall, isConnected, typingTimeoutRef>>
    /\ UNCHANGED <<vars, cvars, evars, pvars, kvars, rvars>>


\* a second passes in the browser; a timeout that is due runs first
Advance ==
    /\ clock < MaxTime
    /\ typingTimeoutRef.pending => clock < typingTimeoutRef.due
    /\ clock' = clock + 1
    /\ UNCHANGED <<chatConversationId, chatMessages, typingUsers, messageHandlers,
                   invoked, lastCall, isConnected, messageText, inputIsTyping,
                   typingTimeoutRef, typingSent, lastInputAt>>
    /\ UNCHANGED <<vars, cvars, evars, pvars, kvars, rvars>>

----------------------------------------------------------------------------
(* POST /api/conversations/:id/messages *)

MaxRequests == 1       \* requests to the route in one behaviour

Response(status, body) == [status |-> status, body |-> body]

\* res.status(status).json(body): once a response has been written,
\* setting a header throws and nothing more is written
jsonAgain(written, status, body) == Returned(Append(written, Response(status, body)))
json(written, status, body) ==
    IF written # <<>> THEN Thrown("ERR_HTTP_HEADERS_SENT")
    ELSE Returned(<<Response(status, body)>>)

\* the catch block of the handler: res.status(500).json(...); an error it
\* throws rejects the promise of the handler
Catch(t) ==
    LET r == json(responses[t.id], 500, "Failed to send message")
    IN /\ responses' = IF r.ok THEN [responses EXCEPT ![t.id] = r.value] ELSE responses
       /\ unhandled' = IF r.ok THEN unhandled ELSE unhandled \cup {t.id}
       /\ requests' = requests \ {t}

\* for (const participant of targetConversation.participants) { ... }
RECURSIVE Broadcast(_, _, _, _, _)
Broadcast(ob, rs, reg, ps, f) ==
    IF ps = <<>> THEN ob
    ELSE Broadcast(IF Head(ps) \in DOMAIN reg
                   THEN ForEachSend(ob, rs, reg[Head(ps)].items, f)
                   ELSE ob,
                   rs, reg, Tail(ps), f)

\* the route is called by user u for conversation v; ok: the body passes
\* insertMessageSchema
PostMessage(u, v, ok) ==
    /\ Len(responses) < MaxRequests
    /\ LET id == Len(responses) + 1
       IN IF u = NoUser
          THEN /\ responses' = Append(responses, <<Response(401, "Unauthorized")>>)
               /\ UNCHANGED <<requests, unhandled>>
          ELSE IF ~ok
          THEN /\ responses' = Append(responses,
                                      json(<<>>, 500, "Failed to send message").value)
               /\ UNCHANGED <<requests, unhandled>>
          ELSE /\ responses' = Append(responses, <<>>)
               /\ requests' = requests \cup
                     {[id |-> id, pc |-> "createMessage", user |-> u,
                       conversationId |-> v, savedMessage |-> 0]}
               /\ UNCHANGED unhandled
    /\ UNCHANGED <<vars, cvars, evars, pvars, uvars, kvars>>

\* await storage.createMessage(validatedMessage) returns or throws
RestCreateMessage(t) ==
    /\ t \in requests /\ t.pc = "createMessage"
    /\ IF t.conversationId \in Conversations /\ t.user \in Users
       THEN /\ messages' = Append(messages,
                   [id |-> Len(messages) + 1, conversationId |-> t.conversationId,
                    senderId |-> t.user, encryptedContent |-> Content("rest", t.id)])
            /\ requests' = (requests \ {t}) \cup
                   {[t EXCEPT !.pc = "getConversation",
                              !.savedMessage = Len(messages) + 1]}
            /\ UNCHANGED <<responses, unhandled>>
       ELSE \* foreign key violation: the insert throws
            /\ messages' = messages
            /\ Catch(t)
    /\ UNCHANGED <<cvars, evars, pvars, uvars, kvars, ignored, readyState, userId,
                   authenticatedClients, setsCreated, outbox, messageStatus, typingStatus,
                   tasks, received>>

\* await storage.getConversation(req.params.id) returns: the 404 or the 201
RestGetConversation(t) ==
    /\ t \in requests /\ t.pc = "getConversation"
    /\ IF ~getConversation(t.conversationId)
       THEN /\ responses' = [responses EXCEPT ![t.id] =
                   json(@, 404, "Conversation not found").value]
            /\ requests' = requests \ {t}
       ELSE /\ responses' = [responses EXCEPT ![t.id] =
                   json(@, 201, messages[t.savedMessage]).value]
            /\ requests' = (requests \ {t}) \cup {[t EXCEPT !.pc = "getUserConversations"]}
    /\ UNCHANGED <<vars, cvars, evars, pvars, uvars, kvars, unhandled>>

\* await storage.getUserConversations(req.user.id) returns (ok) and the
\* loop over the participants runs, or it throws
RestGetUserConversations(t, ok) ==
    /\ t \in requests /\ t.pc = "getUserConversations"
    /\ IF ok
       THEN /\ outbox' =
                  IF t.conversationId \in getUserConversations(t.user)
                  THEN Broadcast(outbox, readyState, authenticatedClients,
                                 conversationParticipants[t.conversationId],
                                 NewMessage(messages[t.savedMessage], getUser(t.user)))
                  ELSE outbox
            /\ requests' = requests \ {t}
            /\ UNCHANGED <<responses, unhandled>>
       ELSE /\ outbox' = outbox
            /\ Catch(t)
    /\ UNCHANGED <<cvars, evars, pvars, uvars, kvars, ignored, readyState, userId,
                   authenticatedClients, setsCreated, messages, messageStatus,
                   typingStatus, tasks, received>>

----------------------------------------------------------------------------
(* Specification *)

\* the server after registerRoutes has run and two connections were accepted
ServerInit ==
    /\ readyState = [c \in Conns |-> "OPEN"]
    /\ userId = [c \in Conns |-> NoUser]
    /\ authenticatedClients = <<>>
    /\ setsCreated = [u \in Users |-> 0]
    /\ outbox = [c \in Conns |-> <<>>]
    /\ messages = InitialMessages
    /\ messageStatus = <<>>
    /\ typingStatus = <<>>
    /\ tasks = {}
    /\ received = 0
    /\ ignored = {}

\* the WebSocketService after construction
ServiceInit ==
    /\ created = 0
    /\ sockets = <<>>
    /\ ws = 0
    /\ reconnectAttempts = 0
    /\ isAuthenticated = FALSE
    /\ clientUserId = NoPrincipal
    /\ timers = <<>>
    /\ promises = <<>>
    /\ calls = 0
    /\ reconnectsSinceAuth = 0
    /\ everOpened = FALSE

\* a browser with an empty localStorage that has encrypted and sent nothing
E2eInit ==
    /\ localStorage = [n \in Usernames |-> Undefined]
    /\ keyPairs = 0
    /\ aesKeys = <<>>
    /\ sealed = NotSealed
    /\ sent = {}
    /\ decryptedContent = NotDecrypted
    /\ currentUsername = Undefined

\* the clock of the database, and no getTypingUsers call made yet
PresenceInit ==
    /\ now = 0
    /\ liveTypers = [v \in Conversations |-> {}]

\* no request to the route has been made
RestInit ==
    /\ requests = {}
    /\ responses = <<>>
    /\ unhandled = {}

\* the chat area is mounted with no conversation selected, its effects have
\* run, and the connect() of the hook has not resolved
ChatInit ==
    /\ clock = 0
    /\ chatConversationId = NoConversation
    /\ chatMessages = <<>>
    /\ typingUsers = <<>>
    /\ messageHandlers = RunHandlerEffect(<<>>, NoConversation)
    /\ invoked = <<>>
    /\ lastCall = [type \in FrameTypes |->
                      [op |-> "onMessage", handler |-> HookHandler(type, NoConversation)]]
    /\ isConnected = FALSE
    /\ messageText = 0
    /\ inputIsTyping = FALSE
    /\ typingTimeoutRef = NoTimeout
    /\ typingSent = <<>>
    /\ lastInputAt = 0

Init ==
    /\ ServerInit
    /\ ServiceInit
    /\ PresenceInit
    /\ E2eInit
    /\ ChatInit
    /\ RestInit
    /\ userRows = [n \in Usernames |-> Str(<<>>)]
    /\ budget = [sockets |-> 0, calls |-> 0]

ClientInit ==
    /\ ServerInit
    /\ ServiceInit
    /\ PresenceInit
    /\ E2eInit
    /\ ChatInit
    /\ RestInit
    /\ userRows = [n \in Usernames |-> Str(<<>>)]
    /\ budget \in Budgets

Next ==
    \/ \E c \in Conns, u \in Users : OnAuthenticate(c, u)
    \/ \E c \in Conns, in \in SendMessageInputs : OnSendMessage(c, in[1], in[2])
    \/ \E t \in tasks : SendCreateMessage(t)
    \/ \E t \in tasks : SendGetConversation(t)
    \/ \E t \in tasks : SendGetUserConversations(t)
    \/ \E t \in tasks : SendGetUser(t)
    \/ \E c \in Conns, in \in TypingInputs : OnTyping(c, in[1], in[2])
    \/ \E t \in tasks : TypingUpdateTypingStatus(t)
    \/ \E t \in tasks : TypingGetConversation(t)
    \/ \E t \in tasks : TypingGetUserConversations(t)
    \/ \E t \in tasks : TypingGetUser(t)
    \/ \E c \in Conns, in \in MessageStatusInputs(messages) :
          OnMessageStatus(c, in[1], in[2], in[3])
    \/ \E t \in tasks : StatusUpdateMessageStatus(t)
    \/ \E t \in tasks : StatusGetConversationMessages(t)
    \/ \E c \in Conns : OnUnknown(c)
    \/ \E c \in Conns : OnMalformed(c)
    \/ \E c \in Conns : OnClose(c)

Spec == Init /\ [][Next]_vars

ClientNext ==
    \/ \E u \in ClientUsers : Connect(u)
    \/ \E k \in DOMAIN sockets : OnOpen(k)
    \/ \E k \in DOMAIN sockets, f \in ServerFrames : OnMessage(k, f)
    \/ \E k \in DOMAIN sockets, wasClean \in BOOLEAN, failed \in BOOLEAN :
          TransportCloses(k, wasClean, failed)
    \/ \E i \in 1..Len(timers) : TimerFires(i)
    \/ Disconnect
    \/ \E f \in ApplicationFrames : SendApplication(f)

ClientSpec == ClientInit /\ [][ClientNext]_cvars

E2eNext ==
    \/ \E v \in ConvIds, content \in Texts :
          \E response \in KeyResponses(v) : SendText(v, content, response)
    \/ \E v \in ConvIds, file \in Files :
          \E response \in KeyResponses(v) : HandleMediaMessage(v, file, response)
    \/ \E how \in Alterations, id \in Users, pair \in {UserPair(u) : u \in Users} :
          DecryptMessage(how, id, pair)
    \/ \E username \in {"u4"} : Signup(username)
    \/ \E username \in {"u4"} : Login(username)

E2eSpec == Init /\ [][E2eNext]_<<evars, kvars>>

\* the server has no row of the username, a row without a public key, or
\* the row of a user who signed up in another browser
KeyInit ==
    /\ ServerInit
    /\ ServiceInit
    /\ PresenceInit
    /\ E2eInit
    /\ ChatInit
    /\ RestInit
    /\ userRows \in [Usernames ->
          {NoRow, Str(<<>>), exportPublicKey(Cardinality(Users) + MaxKeyPairs + 2)}]
    /\ budget = [sockets |-> 0, calls |-> 0]

KeyNext ==
    \/ \E username \in Usernames : Signup(username)
    \/ \E username \in Usernames : Login(username)
    \/ Logout

KeySpec == KeyInit /\ [][KeyNext]_<<evars, kvars>>

PresenceNext ==
    \/ \E v \in Conversations, u \in Users, isTyping \in BOOLEAN :
          UpdateTypingStatus(v, u, isTyping)
    \/ \E v \in Conversations : GetTypingUsers(v)
    \/ Tick

PresenceSpec == Init /\ [][PresenceNext]_<<typingStatus, pvars>>

RestNext ==
    \/ \E c \in Conns, u \in {"u1", "u2"} : OnAuthenticate(c, u)
    \/ \E c \in Conns : OnClose(c)
    \* req.user.id is NoUser when the session is not authenticated
    \/ \E u \in {"u1", "u3", NoUser}, v \in ConvIds, ok \in BOOLEAN : PostMessage(u, v, ok)
    \/ \E t \in requests : RestCreateMessage(t)
    \/ \E t \in requests : RestGetConversation(t)
    \/ \E t \in requests, ok \in BOOLEAN : RestGetUserConversations(t, ok)

RestSpec == Init /\ [][RestNext]_<<vars, rvars>>

ChatNext ==
    \/ \E v \in ChatConversations \cup {NoConversation} : SelectConversation(v)
    \/ \E type \in FrameTypes : OnMessageCall(type)
    \/ \E type \in FrameTypes : OffMessageCall(type)
    \/ \E f \in ChatFrames : HandleFrame(f)
    \/ Advance

ChatSpec == Init /\ [][ChatNext]_uvars

InputNext ==
    \/ ConnectResolves
    \/ \E v \in ChatConversations \cup {NoConversation} : SelectConversation(v)
    \/ \E length \in 0..MaxInput : HandleTyping(length)
    \/ TimeoutRuns
    \/ \E ok \in BOOLEAN : HandleSendMessage(ok)
    \/ Advance

InputSpec == Init /\ [][InputNext]_uvars

----------------------------------------------------------------------------
(* Properties *)

IsRegistered(c, u) ==
    u \in DOMAIN authenticatedClients /\ c \in Range(authenticatedClients[u].items)

HasFrame(ob, c, f) == \E k \in 1..Len(ob[c]) : ob[c][k] = f

\* the handler invocation t ends in this step
Completes(t) == t \in tasks /\ \A t2 \in tasks' : t2.fid # t.fid

\* C1: every connection is a member of at most one principal's set of the
\* connection registry, also after it sent several authenticate frames.
C1_OnePrincipalPerConnection ==
    \A c \in Conns : Cardinality({u \in Users : IsRegistered(c, u)}) <= 1

\* a frame whose type is not authenticate arrives on connection c
ReceivesOtherFrame(c) ==
    \/ \E in \in SendMessageInputs : OnSendMessage(c, in[1], in[2])
    \/ \E in \in TypingInputs : OnTyping(c, in[1], in[2])
    \/ \E in \in MessageStatusInputs(messages) :
          OnMessageStatus(c, in[1], in[2], in[3])
    \/ OnUnknown(c)

\* C2: on a connection that has not authenticated, every frame whose type is
\* not authenticate is answered with the error "Not authenticated" on that
\* connection and changes neither the connection, the registry nor the store.
C2_UnauthenticatedFrameRejected ==
    [][\A c \in Conns :
          (userId[c] = NoUser /\ ReceivesOtherFrame(c)) =>
              /\ outbox' = [outbox EXCEPT ![c] = Append(@, Error("Not authenticated"))]
              /\ UNCHANGED <<readyState, userId, authenticatedClients, messages,
                             messageStatus, typingStatus, tasks>>]_vars

\* C3: when an unauthenticated connection sends authenticate(u), the
\* connection is added to the registry set of u (created if absent), it
\* becomes authenticated as u, and exactly one authenticated reply carrying u
\* is sent, on that connection.
C3_AuthenticateRegisters ==
    [][\A c \in Conns, u \in Users :
          (userId[c] = NoUser /\ received' # received /\ OnAuthenticate(c, u)) =>
              /\ u \in DOMAIN authenticatedClients'
              /\ c \in Range(authenticatedClients'[u].items)
              /\ \A w \in Users \ {u} :
                    w \in DOMAIN authenticatedClients' =>
                       /\ w \in DOMAIN authenticatedClients
                       /\ authenticatedClients'[w] = authenticatedClients[w]
              /\ userId' = [userId EXCEPT ![c] = u]
              /\ outbox' = [outbox EXCEPT ![c] = Append(@, Authenticated(u))]]_vars

C3_Witness ==
    \E c \in Conns :
        /\ userId[c] \in Users
        /\ IsRegistered(c, userId[c])
        /\ outbox[c] = <<Authenticated(userId[c])>>

\* C4: when an authenticated member of a conversation sends a valid
\* send_message, the message is persisted and a new_message frame carrying the
\* stored message and the sender's identity is sent to every open connection
\* registered for a member of the conversation, the sender's included.
C4_SendMessageFansOut ==
    [][\A t \in tasks :
          (/\ t.type = "send_message"
           /\ t.senderId \in Members(t.conversationId)
           /\ Completes(t)) =>
              \E i \in 1..Len(messages') :
                  /\ messages'[i].conversationId = t.conversationId
                  /\ messages'[i].senderId = t.senderId
                  /\ messages'[i].encryptedContent = t.content
                  /\ \A r \in t.registered :
                        readyState'[r] = "OPEN" =>
                           HasFrame(outbox', r, NewMessage(messages'[i], t.senderId))]_vars

\* C5: when an authenticated member sends typing(conversationId, isTyping), a
\* typing_status frame carrying the conversation, the sender's id and
\* isTyping is sent to every open connection of every other member, and to no
\* connection registered for the sender.
C5_TypingReachesOthersOnly ==
    [][\A t \in tasks :
          (t.type = "typing" /\ t.senderId \in Members(t.conversationId)) =>
              /\ Completes(t) =>
                    \A r \in t.registered :
                        readyState'[r] = "OPEN" =>
                           HasFrame(outbox', r,
                                    TypingStatusFrame(t.conversationId, t.senderId,
                                                      t.senderId, t.isTyping))
              /\ TypingGetUser(t) =>
                    \A r \in Conns :
                        outbox'[r] # outbox[r] => ~IsRegistered(r, t.senderId)]_vars

\* C6: the message_status_update caused by message_status(messageId, ...) is
\* delivered only to connections registered for the principal that sent the
\* message identified by messageId.
C6_StatusUpdateToOriginalSender ==
    [][\A t \in tasks :
          StatusGetConversationMessages(t) =>
              \A r \in Conns :
                  outbox'[r] # outbox[r] =>
                      IsRegistered(r, messages[t.messageId].senderId)]_vars

\* C7: if one connection sends send_message m1 and then m2 to the same
\* conversation, every connection that receives both new_message frames
\* receives the one for m1 first.
C7_FifoPerConnection ==
    \A r \in Conns : \A i, j \in 1..Len(outbox[r]) :
        (/\ i < j
         /\ outbox[r][i].type = "new_message"
         /\ outbox[r][j].type = "new_message"
         /\ outbox[r][i].message.conversationId = outbox[r][j].message.conversationId
         /\ outbox[r][i].message.encryptedContent.conn
               = outbox[r][j].message.encryptedContent.conn) =>
            outbox[r][i].message.encryptedContent.n
               <= outbox[r][j].message.encryptedContent.n

\* C8: after the close event of a connection has been handled, the connection
\* is contained in no registry set.
C8_ClosedConnectionUnregistered ==
    \A c \in Conns :
        readyState[c] = "CLOSED" => \A u \in Users : ~IsRegistered(c, u)

\* C9: no id of the connection registry maps to an empty set of connections.
C9_NoEmptyRegistrySet ==
    \A u \in DOMAIN authenticatedClients : Len(authenticatedClients[u].items) > 0

C9_Witness ==
    \E c \in Conns :
        /\ readyState[c] = "CLOSED"
        /\ userId[c] \in Users
        /\ userId[c] \notin DOMAIN authenticatedClients

\* number of authenticated replies for u that connection c has been sent
AuthenticatedCount(c, u) ==
    Cardinality({k \in 1..Len(outbox[c]) : outbox[c][k] = Authenticated(u)})

\* C10: a connection that authenticated twice under the same principal id is
\* sent exactly one copy of a frame fanned out to that principal.
C10_RegisterIdempotent ==
    [][\A t \in tasks, c \in Conns :
          (/\ t.pc = "getUser"
           /\ readyState[c] = "OPEN"
           /\ c \in Range(SetItems(authenticatedClients, t.held))
           /\ AuthenticatedCount(c, t.held[1]) >= 2
           /\ SendGetUser(t) \/ TypingGetUser(t)) =>
              Len(outbox'[c]) = Len(outbox[c]) + 1]_vars

C10_Witness ==
    \E c \in Conns, u \in Users :
        /\ AuthenticatedCount(c, u) >= 2
        /\ IsRegistered(c, u)
        /\ Len(outbox[c]) >= 3
        /\ outbox[c][Len(outbox[c])].type \in {"new_message", "typing_status"}

\* for a connection whose transport has closed: it stays closed, keeps its
\* principal id, is not added to a set of the registry, no handler invocation
\* (hence no store call) starts for it, and no frame of it is answered or
\* dropped by the switch
ClosedIsTerminal(c) ==
    /\ readyState'[c] = "CLOSED"
    /\ userId'[c] = userId[c]
    /\ \A u \in Users : IsRegistered(c, u)' => IsRegistered(c, u)
    /\ \A t \in tasks' : t.conn = c => \E t0 \in tasks : t0.fid = t.fid
    /\ outbox'[c] = outbox[c]
    /\ \A e \in ignored' \ ignored : e[1] # c

\* the handler invocation t takes a step
Steps(t) == t \in tasks /\ t \notin tasks'

\* the step of t sends nothing and does not enter the fanout loop
StartsNoFanout(t) ==
    /\ outbox' = outbox
    /\ \A t2 \in tasks' : t2.fid = t.fid => t2.pc # "getUser"

ErrorMessages == {"Not authenticated", "Failed to send message",
                  "Conversation not found", "Invalid message format"}

\* exactly one error frame is appended to the outbox of c, and the
\* connections and the registry are as before
AnsweredWithError(c) ==
    /\ \E m \in ErrorMessages :
          outbox' = [outbox EXCEPT ![c] = Append(@, Error(m))]
    /\ UNCHANGED <<readyState, userId, authenticatedClients>>

\* C12: a protocol-level error (a frame other than authenticate before
\* authentication, or a send_message naming a conversation that does not
\* exist) is answered with an error frame on the same connection and leaves
\* the connection open, in the same protocol state and with the same registry
\* membership.
C12_ProtocolErrorAnswered ==
    [][/\ \A c \in Conns :
             (userId[c] = NoUser /\ ReceivesOtherFrame(c)) => AnsweredWithError(c)
       /\ \A t \in tasks :
             (/\ t.type = "send_message"
              /\ t.conversationId \notin Conversations
              /\ readyState[t.conn] = "OPEN"
              /\ Steps(t)) => AnsweredWithError(t.conn)]_vars

\* C13: a frame of an unrecognized type received on an authenticated
\* connection is ignored: the registry, the store and the connections are as
\* before, no handler invocation starts, and no frame is sent to any other
\* connection.
C13_UnknownFrameIgnored ==
    [][\A c \in Conns :
          (received' # received /\ userId[c] # NoUser /\ OnUnknown(c)) =>
              /\ UNCHANGED <<readyState, userId, authenticatedClients, setsCreated,
                             messages, messageStatus, typingStatus, tasks>>
              /\ \A d \in Conns \ {c} : outbox'[d] = outbox[d]]_vars

\* an authenticated connection has received a frame of an unrecognized type
C13_Witness ==
    \E e \in ignored : e[2] \in Users /\ userId[e[1]] = e[2]

----------------------------------------------------------------------------
(* Properties of the client *)

\* number of connect() calls made by timer callbacks after one connect() of the caller
Reconnects == created - 1

\* no socket is connecting or open and no timer is pending
Quiescent == DOMAIN sockets = {} /\ timers = <<>>

\* the caller called connect() once and nothing else, and no transport of
\* the session has opened
OnlyFailingTransports == calls = 1 /\ clientUserId # NoPrincipal /\ ~everOpened

\* C14: with maxReconnectAttempts = 5 and a transport that always fails to
\* open, a session started by connect makes exactly 5 reconnect attempts and
\* then stops: no socket is left and no timer is pending.
C14_FiveReconnectsThenStop ==
    OnlyFailingTransports =>
        /\ Reconnects <= 5
        /\ reconnectAttempts = Reconnects
        /\ Quiescent => Reconnects = 5

\* the sixth transport has failed and nothing is scheduled
C14_Witness ==
    OnlyFailingTransports /\ Quiescent /\ created = 6

\* C15: as long as authentication does not complete, the client makes at most
\* maxReconnectAttempts reconnect attempts, and the attempt counter is reset
\* to zero only by a successful authentication.
C15_AtMostMaxReconnectsWithoutAuth ==
    [][/\ reconnectsSinceAuth' <= maxReconnectAttempts
       /\ reconnectAttempts' < reconnectAttempts =>
             \E k \in DOMAIN sockets : OnMessage(k, [type |-> "authenticated"])]_cvars

\* a promise held by the caller is rejected in this step
CallerNotified ==
    \E k \in DOMAIN promises :
        promises[k].state = "pending" /\ promises'[k].state = "rejected"

\* C16: when a transport closes uncleanly and no reconnect attempt remains,
\* the caller is notified.
C16_ExhaustionNotified ==
    [][\A k \in DOMAIN sockets :
          (/\ ~CanReconnect(FALSE, reconnectAttempts)
           /\ \E failed \in BOOLEAN : TransportCloses(k, FALSE, failed))
              => CallerNotified]_cvars

\* what disconnect() leaves behind
Disconnected ==
    /\ ws' = 0
    /\ ~isAuthenticated'
    /\ clientUserId' = NoPrincipal
    /\ ReadyState(sockets, ws) \in {"CONNECTING", "OPEN"} =>
          sockets'[ws].readyState = "CLOSING" /\ sockets'[ws].code = 1000

\* C17: disconnect() closes the transport with code 1000 and leaves
\* isAuthenticated false and no principal id; from then on, until the caller
\* calls connect again, no step creates a WebSocket, not even the callback of
\* a reconnect timer that was pending.
C17_DisconnectStopsReconnect ==
    [][/\ (calls' # calls /\ Disconnect) => Disconnected
       /\ (clientUserId = NoPrincipal /\ calls' = calls) =>
             (created' = created /\ clientUserId' = NoPrincipal)]_cvars

\* a reconnect timer fired after disconnect() and connected nothing
C17_Witness ==
    /\ calls = 2 /\ clientUserId = NoPrincipal
    /\ created = 1 /\ reconnectAttempts = 1 /\ ~everOpened /\ timers = <<>>

\* C18: an application frame passed to send while the session is not Ready
\* (open and authenticated) is dropped: nothing is transmitted.
C18_SendOnlyWhenReady ==
    [][\A f \in ApplicationFrames :
          (calls' # calls /\ ~IsConnected /\ SendApplication(f))
              => sockets' = sockets]_cvars

\* C19: when the transport of a connect(principalId) call opens, the first
\* frame transmitted on it is authenticate(principalId); the promise of the
\* call resolves only when an authenticated frame arrives on it; an error
\* frame that arrives while the promise is pending rejects it with the
\* message of the frame.
C19_ConnectHandshake ==
    [][\A k \in DOMAIN sockets :
          /\ OnOpen(k) =>
                sockets'[k].sent = <<AuthenticateFrame(sockets[k].userId)>>
          /\ (k \in DOMAIN promises /\ promises[k].state = "pending") =>
                /\ promises'[k].state = "resolved" =>
                      OnMessage(k, [type |-> "authenticated"])
                /\ \A f \in ServerFrames :
                      (f.type = "error" /\ OnMessage(k, f)) =>
                          promises'[k] = [state |-> "rejected", reason |-> f.message]]_cvars

----------------------------------------------------------------------------
(* Properties of the envelope *)

\* the encryptedKeys object of the last envelope
WrappedKeys == JsonParse(sealed.encryptedContent).encryptedKeys.value

\* the last envelope was built from the response of the key endpoint
FromKeyEndpoint ==
    /\ sealed.built
    /\ sealed.conversationId \in Conversations
    /\ sealed.participants = getConversationParticipants(sealed.conversationId)

\* C21: every envelope sendMessage builds from the response of the key
\* endpoint holds exactly one wrapped key per member of the conversation,
\* the sender included, each wrapped under that member's public key, and
\* none for anyone else.
C21_OneWrappedKeyPerMember ==
    FromKeyEndpoint =>
        /\ DOMAIN WrappedKeys = Range(conversationParticipants[sealed.conversationId])
        /\ \A id \in DOMAIN WrappedKeys :
               WrappedKeys[id] = encryptAESKey(sealed.messageKey, UserPair(id))

C21_Witness ==
    /\ FromKeyEndpoint
    /\ Cardinality(DOMAIN WrappedKeys) = 2
    /\ \E r \in sent : r.to = "ws"

\* the principals the last envelope holds a wrapped key for
Recipients == DOMAIN WrappedKeys

\* the bubble opened the envelope as it was built, with the id and the
\* private key of one of its recipients
OpenedByRecipient ==
    /\ decryptedContent.decrypted
    /\ decryptedContent.how = "none"
    /\ decryptedContent.currentUserId \in Recipients
    /\ decryptedContent.pair = UserPair(decryptedContent.currentUserId)

\* a string of UTF-16 code units without an unpaired surrogate
RECURSIVE WellFormedUnits(_)
WellFormedUnits(units) ==
    IF units = <<>> THEN TRUE
    ELSE IF Len(units) >= 2 /\ units[1] = "hi" /\ units[2] = "lo"
         THEN WellFormedUnits(SubSeq(units, 3, Len(units)))
    ELSE units[1] \notin {"hi", "lo"} /\ WellFormedUnits(Tail(units))

WellFormed(message) == message.kind = "string" => WellFormedUnits(message.units)

C23_NotARecipient ==
    decryptedContent.decrypted /\ decryptedContent.currentUserId \notin Recipients =>
        /\ decryptedContent.content =
               Notice("Unable to decrypt: key not available for this user")
        /\ decryptedContent.content # sealed.content

C23_Witness ==
    /\ decryptedContent.decrypted
    /\ decryptedContent.currentUserId \notin Recipients
    /\ decryptedContent.pair \in {UserPair(r) : r \in Recipients}
    /\ decryptedContent.how = "none"

\* a recipient could not unwrap the message key: the wrapped key changed,
\* or the private key is not the one of the public key it was wrapped under
UnwrapFails ==
    /\ decryptedContent.decrypted
    /\ decryptedContent.currentUserId \in Recipients
    /\ \/ decryptedContent.how = "encryptedKey"
       \/ decryptedContent.pair # UserPair(decryptedContent.currentUserId)

\* a recipient unwrapped the message key and the ciphertext failed its
\* integrity check
IntegrityFails ==
    /\ decryptedContent.decrypted
    /\ decryptedContent.currentUserId \in Recipients
    /\ decryptedContent.how = "encryptedData"
    /\ decryptedContent.pair = UserPair(decryptedContent.currentUserId)

\* C24: a failure to unwrap the message key and a failure of the integrity
\* check of the content show the same thing, the one failure notice.
C24_FailuresIndistinguishable ==
    UnwrapFails \/ IntegrityFails =>
        decryptedContent.content = Notice("Failed to decrypt message")

C24_Witness ==
    IntegrityFails /\ decryptedContent.content = Notice("Failed to decrypt message")

IsMedia == sealed.built /\ sealed.content.kind = "json"
MediaKey == base64ToArrayBuffer(JsonParse(sealed.content).mediaKey).key

\* C26: every AES key encrypts exactly one payload, and the key of a media
\* attachment is not the key of the message that carries it.
C26_OneKeyOnePayload ==
    /\ \A k \in DOMAIN aesKeys : aesKeys[k] = 1
    /\ IsMedia => MediaKey # sealed.messageKey

C26_Witness == IsMedia /\ Len(aesKeys) = 2

\* the key material a reader without any key finds in a value
RECURSIVE Exposed(_)
Exposed(value) ==
    CASE value.kind \in {"raw", "pkcs8"} -> {value}
      [] value.kind \in {"json", "object"} ->
             UNION {Exposed(value.value[f]) : f \in DOMAIN value.value}
      [] value.kind = "base64" -> Exposed(value.of)
      [] OTHER -> {}

\* C27: the media key travels inside the encrypted plaintext of the message
\* only: no request or frame exposes it, in the wrapped-key map, in the
\* metadata or anywhere else.
C27_MediaKeyOnlyInPlaintext ==
    IsMedia =>
        /\ \A r \in sent : ExportRaw(MediaKey) \notin Exposed(r.body)
        /\ base64ToArrayBuffer(JsonParse(sealed.encryptedContent).encryptedData).data
               = Encode(sealed.content)

C27_Witness ==
    /\ IsMedia
    /\ \E r \in sent : r.to = "ws" /\ JsonParse(r.body).metadata # Undefined

\* C28: no request or frame the browser sends exposes a private key; the
\* requests of signup and of the key generation at login carry the public
\* key, and the private key of it is in localStorage.
C28_PrivateKeyNeverSent ==
    \A r \in sent :
        /\ \A k \in Exposed(r.body) : k.kind # "pkcs8"
        /\ r.to \in {"/api/register", "/api/user/update-keys"} =>
               \E n \in Usernames :
                   localStorage[n] = exportPrivateKey(
                       importPublicKey(JsonParse(r.body).publicKey))

C28_Witness ==
    /\ \E r \in sent : r.to = "/api/register"
    /\ \E n \in Usernames : ~IsFalsy(localStorage[n])

----------------------------------------------------------------------------
(* Properties of presence *)

\* the typing marks of principal u in conversation v, and the latest of them
Marks(v, u) ==
    {i \in 1..Len(typingStatus) :
        typingStatus[i].conversationId = v /\ typingStatus[i].userId = u}
LatestMark(v, u) ==
    typingStatus[CHOOSE i \in Marks(v, u) : \A j \in Marks(v, u) : j <= i]

\* C29: a principal whose latest typing mark in a conversation was set with
\* isTyping = true at time t0 is among the live typers of the conversation
\* at every time before t0 + 5 s and at no time after t0 + 5 s.
C29_TypingExpiry ==
    \A v \in Conversations, u \in Users :
        Marks(v, u) # {} /\ LatestMark(v, u).isTyping =>
            /\ now < LatestMark(v, u).lastUpdate + 5 =>
                   u \in getTypingUsers(typingStatus, v, now)
            /\ now > LatestMark(v, u).lastUpdate + 5 =>
                   u \notin getTypingUsers(typingStatus, v, now)

C29_Witness ==
    \E v \in Conversations, u \in Users :
        /\ Cardinality(Marks(v, u)) = 2
        /\ LatestMark(v, u).isTyping
        /\ now > LatestMark(v, u).lastUpdate + 5
        /\ u \notin liveTypers[v]

\* right after an update with isTyping = false the principal is not among
\* the live typers
StoppedTypingNotLive ==
    \A v \in Conversations, u \in Users :
        Marks(v, u) # {} /\ ~LatestMark(v, u).isTyping
                /\ now = LatestMark(v, u).lastUpdate =>
            u \notin getTypingUsers(typingStatus, v, now)

\* C30: after any sequence of updates for one conversation and principal
\* there is exactly one mark for them, holding the latest isTyping and
\* timestamp; right after an update with isTyping = false the principal is
\* not among the live typers.
C30_UpsertLastWriteWins ==
    /\ \A v \in Conversations, u \in Users : Cardinality(Marks(v, u)) <= 1
    /\ StoppedTypingNotLive

----------------------------------------------------------------------------
(* Properties of membership and of the transports *)

\* the frames appended to the outbox of connection c by the step
Delivered(c) ==
    {outbox'[c][k] : k \in (Len(outbox[c]) + 1)..Len(outbox'[c])}

\* C35: a connection is sent a new_message or typing_status frame of a
\* conversation only if the principal it most recently authenticated as is a
\* member of that conversation.
C35_FramesOnlyToMembers ==
    [][\A c \in Conns : \A f \in Delivered(c) :
          /\ f.type = "new_message" =>
                userId[c] \in Members(f.message.conversationId)
          /\ f.type = "typing_status" =>
                userId[c] \in Members(f.conversationId)]_vars

\* C36: every message held by the store was sent by a member of the
\* conversation of the message.
C36_StoredMessagesFromMembers ==
    \A i \in 1..Len(messages) :
        messages[i].senderId \in Members(messages[i].conversationId)

\* C37: at most one WebSocket created by the service is connecting or open.
C37_OneLiveTransport ==
    Cardinality({k \in DOMAIN sockets :
                    sockets[k].readyState \in {"CONNECTING", "OPEN"}}) <= 1

----------------------------------------------------------------------------
(* Properties of the chat *)

\* C31: a peer is shown as typing for at most the 5 seconds of the typing
\* TTL after the last typing frame about the peer, also when no
\* typing(false) frame follows.
C31_TypingIndicatorExpires ==
    \A i \in 1..Len(typingUsers) :
        clock <= typingUsers[i].createdAt + typingInterval

\* C33: an incoming frame invokes the handler of the last onMessage call
\* for its type, once, and no handler when there was no such call or an
\* offMessage call for the type came after it.
C33_LatestHandlerOnly ==
    [][\A f \in ChatFrames :
          HandleFrame(f) =>
              invoked' = IF lastCall[f.type].op = "onMessage"
                         THEN <<lastCall[f.type].handler>>
                         ELSE <<>>]_uvars

C33_Witness ==
    /\ invoked = <<OtherHandler>>
    /\ \E type \in FrameTypes : lastCall[type].op = "offMessage"

\* the ids of a message list are distinct, its messages are of the selected
\* conversation, and it is in ascending order of creation time
ListWellFormed(list) ==
    /\ \A i, j \in 1..Len(list) : list[i].id = list[j].id => i = j
    /\ chatConversationId # NoConversation =>
           \A i \in 1..Len(list) : list[i].conversationId = chatConversationId
    /\ \A i, j \in 1..Len(list) :
           i < j => GetTime(list[i].createdAt) <= GetTime(list[j].createdAt)

\* C39: the message list of the hook holds every id at most once, only
\* messages of the selected conversation, in ascending order of creation
\* time; a new_message frame whose message id is in the list leaves the
\* list as it is.
C39_MessageListWellFormed ==
    [][/\ ListWellFormed(chatMessages')
       /\ \A f \in ChatFrames :
             (/\ HandleFrame(f)
              /\ f.type = "new_message"
              /\ ~IsFalsy(f.message)
              /\ \E i \in 1..Len(chatMessages) : chatMessages[i].id = f.message.id)
                 => chatMessages' = chatMessages]_uvars

C39_Witness ==
    /\ chatConversationId = "v1"
    /\ Len(chatMessages) = 2
    /\ invoked = <<HookHandler("new_message", "v1")>>

\* C38: while the last typing frame the input sent is typing(true), no more
\* than the 3 seconds of the idle timeout have passed since the last
\* keystroke or send.
C38_StopTypingAfterIdle ==
    (typingSent # <<>> /\ typingSent[1].isTyping) =>
        clock <= lastInputAt + typingIdleTimeout

----------------------------------------------------------------------------
(* Properties of the key pair of a user *)

\* C34: for every username, a private key in localStorage and a public key
\* in the row of the user belong to the same key pair.
C34_LocalKeyMatchesServerKey ==
    \A n \in Usernames :
        (~IsFalsy(localStorage[n]) /\ userRows[n] # NoRow /\ ~IsFalsy(userRows[n])) =>
            importPrivateKey(localStorage[n]) = importPublicKey(userRows[n])

----------------------------------------------------------------------------
(* Properties of the REST send path *)

\* the new_message frames carrying the message of request id that the step
\* appends to the outbox of connection c
Fanned(id, c) ==
    {f \in Delivered(c) :
        f.type = "new_message" /\ f.message.encryptedContent = Content("rest", id)}

\* C32: the 201 response to a REST send is written after the message is in
\* the store and before any connection is sent its new_message frame, and a
\* response that has been written is neither followed by a second one nor
\* changed, also when the fanout fails.
C32_ResponseBeforeFanout ==
    [][\A id \in DOMAIN responses :
          /\ responses[id] # <<>> => responses'[id] = responses[id]
          /\ (responses[id] = <<>> /\ responses'[id] # <<>>
                  /\ responses'[id][1].status = 201) =>
                 /\ Len(responses'[id]) = 1
                 /\ \E i \in 1..Len(messages) :
                        /\ messages[i] = responses'[id][1].body
                        /\ messages[i].encryptedContent = Content("rest", id)
          /\ \A c \in Conns :
                 Fanned(id, c) # {} =>
                     /\ Len(responses[id]) = 1
                     /\ responses[id][1].status = 201
                     /\ \A f \in Fanned(id, c) : f.message = responses[id][1].body]_<<vars, rvars>>

\* the fanout of a request failed after its 201 response had been written
C32_Witness ==
    \E id \in unhandled :
        /\ responses[id] = <<Response(201, messages[Len(messages)])>>
        /\ messages[Len(messages)].encryptedContent = Content("rest", id)

====
